---- MODULE Spec2Model ----
(***************************************************************************)
(* Model of the user_media list handlers (favorites / watched / watchlist) *)
(* and of the withTransaction helper they use, of the avatar handlers, of  *)
(* the pool module, and of the middleware in front of the handlers.        *)
(*                                                                         *)
(* The database is PostgreSQL at its default isolation level (READ         *)
(* COMMITTED): a statement sees the committed rows plus the writes of its  *)
(* own transaction, a row written by an open transaction is locked until   *)
(* that transaction ends, and a statement that needs a locked row waits.   *)
(* A statement sent outside a transaction block commits on its own.        *)
(***************************************************************************)
EXTENDS Integers, FiniteSets, Sequences, TLC

\* ------------------------------------------------------------------ bounds
MaxOps == 3          \* requests started in one behaviour
MaxTime == 2         \* last value of the clock (NOW())
MaxLen == 3          \* characters of a string of a request body

Procs == {"h1", "h2"}                 \* concurrently running request handlers
Users == {456, 789}                   \* :userid values
MediaIds == {"tt1", "tt2"}            \* media_id values
MediaTypes == {"movie", "tvshow"}     \* CHECK (media_type IN ('movie','tvshow'))
Kinds == {"watchlist", "favorites", "watched"}
NULL == 0                             \* SQL NULL of a timestamp column
max == 20                             \* clients in the pool

VARIABLES
    user_media,   \* the committed rows of table user_media
    nextId,       \* source of fresh row ids (gen_random_uuid())
    now,          \* the clock
    pc,           \* pc[p]: the statement handler p is waiting on
    req,          \* req[p]: the request handler p is serving
    tx,           \* tx[p]: the transaction open on p's client
    held,         \* held[p]: p's withTransaction holds a pool client
    releases,     \* releases[p]: client.release() calls of the current call
    caught,       \* caught[p]: statement whose error entered the catch block
    resp,         \* resp[p]: the response of the request
    ops,          \* requests started so far
    pre,          \* one call at a time: the committed rows before the last write call
    last,         \* one call at a time: the request of the call before this one
    lastResp,     \* one call at a time: the response of the call before this one
    assigned,     \* one call at a time: assigned[u], the avatar_id of the last
                  \* PATCH for u that returned 200 (NULL: none yet)
    user_avatars, \* the committed rows of table user_avatars
    thrown,       \* thrown[p]: the error p's withTransaction call rejected with
    log,          \* log[p]: the statements of the current request, in the order
                  \* sent, each with its outcome; "release" is client.release()
    pool,         \* database.ts: let pool: Pool | null
    connected,    \* a connectToDatabase call has resolved and no
                  \* disconnectFromDatabase call has resolved since
    seeded_default \* the seeded default flag of avatars row 1 is still set

vars == <<user_media, nextId, now, pc, req, tx, held, releases, caught, resp, ops,
          pre, last, lastResp, assigned, user_avatars, thrown, log,
          pool, connected, seeded_default>>
hist == <<pre, last, lastResp, assigned>>
db == <<pool, connected, seeded_default>>

\* ------------------------------------------------------------ rows, columns
Flag(r, k) ==
    CASE k = "watchlist" -> r.is_watchlist
      [] k = "favorites" -> r.is_favorite
      [] k = "watched"   -> r.is_watched

AddedAt(r, k) ==
    CASE k = "watchlist" -> r.watchlist_added_at
      [] k = "favorites" -> r.favorite_added_at
      [] k = "watched"   -> r.watched_at

\* SET is_<k> = b, <k>_added_at = ts
SetList(r, k, b, ts) ==
    CASE k = "watchlist" -> [r EXCEPT !.is_watchlist = b, !.watchlist_added_at = ts]
      [] k = "favorites" -> [r EXCEPT !.is_favorite = b, !.favorite_added_at = ts]
      [] k = "watched"   -> [r EXCEPT !.is_watched = b, !.watched_at = ts]

\* A row as INSERT creates it from the column defaults.
DefaultRow(id, u, m, t, ts) ==
    [id |-> id, user_id |-> u, media_id |-> m, media_type |-> t,
     is_watchlist |-> FALSE, is_favorite |-> FALSE, is_watched |-> FALSE,
     watchlist_added_at |-> NULL, favorite_added_at |-> NULL, watched_at |-> NULL,
     updated_at |-> ts]

\* BEFORE UPDATE trigger update_user_media_updated_at
update_updated_at_column(r, ts) == [r EXCEPT !.updated_at = ts]

NoFlags(r) == r.is_watchlist = FALSE /\ r.is_favorite = FALSE /\ r.is_watched = FALSE

Ids(T) == {r.id : r \in T}

\* CONSTRAINT unique_user_media UNIQUE (user_id, media_id): the rows an
\* INSERT of (u, m) conflicts with.
unique_user_media(T, u, m) == {r \in T : r.user_id = u /\ r.media_id = m}

\* ---------------------------------------------------------- SQL statements
\* fault: DO UPDATE SET is_<k> = TRUE alone, the timestamp is left
addTo_INSERT_KeepsAddedAt(T, id, u, m, t, k, ts) ==
    LET hit == unique_user_media(T, u, m) IN
    IF hit = {}
    THEN T \cup {SetList(DefaultRow(id, u, m, t, ts), k, TRUE, ts)}
    ELSE (T \ hit) \cup {update_updated_at_column(SetList(r, k, TRUE, AddedAt(r, k)), ts) : r \in hit}

\* fault: DO UPDATE SET also takes media_type = EXCLUDED.media_type
addTo_INSERT_UpdatesMediaType(T, id, u, m, t, k, ts) ==
    LET hit == unique_user_media(T, u, m) IN
    IF hit = {}
    THEN T \cup {SetList(DefaultRow(id, u, m, t, ts), k, TRUE, ts)}
    ELSE (T \ hit) \cup {update_updated_at_column(
                              SetList([r EXCEPT !.media_type = t], k, TRUE, ts), ts) : r \in hit}

\* fault: ON CONFLICT DO NOTHING
addTo_INSERT_DoNothing(T, id, u, m, t, k, ts) ==
    IF unique_user_media(T, u, m) = {}
    THEN T \cup {SetList(DefaultRow(id, u, m, t, ts), k, TRUE, ts)}
    ELSE T

\* fault: on conflict the row is rewritten from the inserted values
addTo_INSERT_Overwrites(T, id, u, m, t, k, ts) ==
    LET hit == unique_user_media(T, u, m) IN
    (T \ hit) \cup {SetList(DefaultRow(IF hit = {} THEN id ELSE (CHOOSE r \in hit : TRUE).id,
                                       u, m, t, ts), k, TRUE, ts)}

\* fault: a plain INSERT, as if no row could conflict
addTo_INSERT_NoConflict(T, id, u, m, t, k, ts) ==
    T \cup {SetList(DefaultRow(id, u, m, t, ts), k, TRUE, ts)}

\* INSERT ... VALUES ($1,$2,$3,TRUE,NOW()) ON CONFLICT (user_id, media_id)
\* DO UPDATE SET is_<k> = TRUE, <k>_added_at = NOW()
addTo_INSERT(T, id, u, m, t, k, ts) ==
    LET hit == unique_user_media(T, u, m) IN
    IF hit = {}
    THEN T \cup {SetList(DefaultRow(id, u, m, t, ts), k, TRUE, ts)}
    ELSE (T \ hit) \cup {update_updated_at_column(SetList(r, k, TRUE, ts), ts) : r \in hit}

\* fault: the statement of the watchlist controller, pasted with its columns
deleteItem_UPDATE_WatchlistColumns(T, u, m, k, ts) ==
    {IF r.user_id = u /\ r.media_id = m
     THEN update_updated_at_column(SetList(r, "watchlist", FALSE, NULL), ts) ELSE r : r \in T}

\* fault: the flag is cleared and its timestamp is left
deleteItem_UPDATE_KeepsTimestamp(T, u, m, k, ts) ==
    {IF r.user_id = u /\ r.media_id = m
     THEN update_updated_at_column(SetList(r, k, FALSE, AddedAt(r, k)), ts) ELSE r : r \in T}

\* UPDATE user_media SET is_<k> = FALSE, <k>_added_at = NULL
\* WHERE user_id = $1 AND media_id = $2
deleteItem_UPDATE_WHERE(T, u, m, k) == {r \in T : r.user_id = u /\ r.media_id = m}
deleteItem_UPDATE(T, u, m, k, ts) ==
    LET hit == deleteItem_UPDATE_WHERE(T, u, m, k) IN
    (T \ hit) \cup {update_updated_at_column(SetList(r, k, FALSE, NULL), ts) : r \in hit}

\* fault: the cleanup does not look at the flags
deleteItem_DELETE_WHERE_AnyFlags(T, u, m) == {r \in T : r.user_id = u /\ r.media_id = m}

\* fault: the cleanup matches nothing
deleteItem_DELETE_WHERE_Nothing(T, u, m) == {}

\* DELETE FROM user_media WHERE user_id = $1 AND media_id = $2
\* AND is_watchlist = FALSE AND is_favorite = FALSE AND is_watched = FALSE
deleteItem_DELETE_WHERE(T, u, m) ==
    {r \in T : r.user_id = u /\ r.media_id = m /\ NoFlags(r)}
deleteItem_DELETE(T, u, m) == T \ deleteItem_DELETE_WHERE(T, u, m)

\* fault: the user test is missing from WHERE
deleteAll_UPDATE_WHERE_AllUsers(T, u, k) == {r \in T : Flag(r, k) = TRUE}

\* fault: the flag test is missing from WHERE, as in the single-item UPDATE
deleteAll_UPDATE_WHERE_AnyFlag(T, u, k) == {r \in T : r.user_id = u}

\* UPDATE user_media SET is_<k> = FALSE, <k>_added_at = NULL
\* WHERE user_id = $1 AND is_<k> = TRUE
deleteAll_UPDATE_WHERE(T, u, k) == {r \in T : r.user_id = u /\ Flag(r, k) = TRUE}
deleteAll_UPDATE(T, u, k, ts) ==
    LET hit == deleteAll_UPDATE_WHERE(T, u, k) IN
    (T \ hit) \cup {update_updated_at_column(SetList(r, k, FALSE, NULL), ts) : r \in hit}

\* fault: the cleanup deletes every row of the user
deleteAll_DELETE_WHERE_AllOfUser(T, u) == {r \in T : r.user_id = u}

\* DELETE FROM user_media WHERE user_id = $1
\* AND is_watchlist = FALSE AND is_favorite = FALSE AND is_watched = FALSE
deleteAll_DELETE_WHERE(T, u) == {r \in T : r.user_id = u /\ NoFlags(r)}
deleteAll_DELETE(T, u) == T \ deleteAll_DELETE_WHERE(T, u)

\* SELECT id, user_id, media_id, media_type, <k>_added_at as added_at
\* ... mapped to the response item
Project(r, k) ==
    [id |-> r.id, source_text |-> k, user_id |-> r.user_id,
     media_type |-> r.media_type, media_id |-> r.media_id, added_at |-> AddedAt(r, k)]

\* fault: the WHERE clause tests the flag of another list
get_SELECT_WatchlistFlag(T, u, k) ==
    {Project(r, k) : r \in {x \in T : x.user_id = u /\ x.is_watchlist = TRUE}}

\* fault: the user filter is missing from WHERE
get_SELECT_AllUsers(T, u, k) == {Project(r, k) : r \in {x \in T : Flag(x, k) = TRUE}}

\* ... FROM user_media WHERE user_id = $1 AND is_<k> = TRUE
get_SELECT(T, u, k) == {Project(r, k) : r \in {x \in T : x.user_id = u /\ Flag(x, k) = TRUE}}

\* ORDER BY <k>_added_at DESC: every order of the items the clause allows
\* (rows with equal timestamps come in any order).
OrderByAddedAtDesc(S) ==
    {s \in [1..Cardinality(S) -> S] :
        /\ \A i, j \in 1..Cardinality(S) : i # j => s[i] # s[j]
        /\ \A i, j \in 1..Cardinality(S) : i < j => s[i].added_at >= s[j].added_at}

\* ------------------------------------------------- transactions and locks
NoTx == [open |-> FALSE, start |-> 0, upd |-> {}, del |-> {}]

\* ids of the rows p's open transaction has written or deleted
LockedBy(p) == Ids(tx[p].upd) \cup tx[p].del

\* the rows a statement on p's client sees
View(p) ==
    IF tx[p].open
    THEN {r \in user_media : r.id \notin LockedBy(p)} \cup tx[p].upd
    ELSE user_media

\* NOW() / CURRENT_TIMESTAMP: the start of the transaction
Now(p) == IF tx[p].open THEN tx[p].start ELSE now

\* fault: a statement does not wait for the row locks of other transactions
Free_NoLocks(p, hit) == TRUE

\* no other transaction holds a lock on a row of hit
Free(p, hit) == \A q \in Procs \ {p} : Ids(hit) \cap LockedBy(q) = {}

\* fault: every statement commits on its own, transaction block or not
ClientWrite_Autocommit(p, hit, V2) ==
    /\ Free(p, hit)
    /\ user_media' = V2
    /\ UNCHANGED tx

\* A write statement on p's client that matched the rows hit of View(p) and
\* turns View(p) into V2: private to the transaction when one is open,
\* committed at once otherwise.
ClientWrite(p, hit, V2) ==
    /\ Free(p, hit)
    /\ IF tx[p].open
       THEN /\ tx' = [tx EXCEPT
                  ![p].upd = {r \in V2 : r.id \in Ids(hit) \cup Ids(tx[p].upd)},
                  ![p].del = tx[p].del \cup (Ids(hit) \ Ids(V2))]
            /\ UNCHANGED user_media
       ELSE /\ user_media' = V2
            /\ UNCHANGED tx

\* --------------------------------------------------------------- requests
NoResp == [status |-> 0, body |-> <<>>]
NoReq == [op |-> "none", u |-> 0, m |-> "", t |-> "", k |-> ""]

\* no request in flight, both tables empty
Booted ==
    /\ user_media = {}
    /\ nextId = 1
    /\ now = 1
    /\ pc = [p \in Procs |-> "idle"]
    /\ req = [p \in Procs |-> NoReq]
    /\ tx = [p \in Procs |-> NoTx]
    /\ held = [p \in Procs |-> FALSE]
    /\ releases = [p \in Procs |-> 0]
    /\ caught = [p \in Procs |-> "none"]
    /\ resp = [p \in Procs |-> NoResp]
    /\ ops = 0
    /\ pre = {}
    /\ last = NoReq
    /\ lastResp = NoResp
    /\ assigned = [u \in Users |-> NULL]
    /\ user_avatars = {}
    /\ thrown = [p \in Procs |-> "none"]
    /\ log = [p \in Procs |-> <<>>]

\* The server is up: startup has connected the pool, the schema has seeded
\* the avatars.
Init ==
    /\ Booted
    /\ pool = "Pool"
    /\ connected = TRUE
    /\ seeded_default = TRUE

\* The clock read by a statement: since the last reading it has advanced by
\* dt (0 or 1; only the order of timestamps matters).
Clock(dt) == now + dt <= MaxTime /\ now' = now + dt

\* A request reaches its handler: the handler runs up to its first await.
Start(p, r, first) ==
    /\ pc[p] = "idle"
    /\ ops < MaxOps
    /\ ops' = ops + 1
    /\ req' = [req EXCEPT ![p] = r]
    /\ pc' = [pc EXCEPT ![p] = first]
    /\ UNCHANGED <<user_media, nextId, now, tx, held, releases, caught, resp, thrown, log>>

\* A GET request reaches its handler.  Reads change no row, so their number
\* needs no bound.
StartRead(p, r, first) ==
    /\ pc[p] = "idle"
    /\ req' = [req EXCEPT ![p] = r]
    /\ pc' = [pc EXCEPT ![p] = first]
    /\ UNCHANGED <<user_media, nextId, now, tx, held, releases, caught, resp, ops, thrown, log>>

\* The response has been sent and the handler's promise has settled.
Return(p) ==
    /\ pc[p] = "done"
    /\ pc' = [pc EXCEPT ![p] = "idle"]
    /\ req' = [req EXCEPT ![p] = NoReq]
    /\ resp' = [resp EXCEPT ![p] = NoResp]
    /\ releases' = [releases EXCEPT ![p] = 0]
    /\ caught' = [caught EXCEPT ![p] = "none"]
    /\ thrown' = [thrown EXCEPT ![p] = "none"]
    /\ log' = [log EXCEPT ![p] = <<>>]
    /\ UNCHANGED <<user_media, nextId, now, tx, held, ops>>

\* POST /:userid/<list>: the upsert, sent through pool.query
addTo(p, ok, dt) ==
    /\ pc[p] = "add"
    /\ Clock(dt)
    /\ pc' = [pc EXCEPT ![p] = "done"]
    /\ IF ok
       THEN LET r == req[p]
                T2 == addTo_INSERT(user_media, nextId, r.u, r.m, r.t, r.k, now')
                row == CHOOSE x \in unique_user_media(T2, r.u, r.m) : TRUE
            IN  /\ Free(p, unique_user_media(user_media, r.u, r.m))
                /\ user_media' = T2
                /\ nextId' = IF nextId \in Ids(T2) THEN nextId + 1 ELSE nextId
                /\ resp' = [resp EXCEPT ![p] = [status |-> 201, body |-> <<Project(row, r.k)>>]]
       ELSE /\ resp' = [resp EXCEPT ![p] = [status |-> 500, body |-> <<>>]]
            /\ UNCHANGED <<user_media, nextId>>
    /\ log' = [log EXCEPT ![p] = Append(@, <<"INSERT", ok>>)]
    /\ UNCHANGED <<req, tx, held, releases, caught, ops, thrown>>

\* GET /:userid/<list>: the SELECT, sent through pool.query
get(p, ok) ==
    /\ pc[p] = "list"
    /\ pc' = [pc EXCEPT ![p] = "done"]
    /\ IF ok
       THEN \E s \in OrderByAddedAtDesc(get_SELECT(user_media, req[p].u, req[p].k)) :
                resp' = [resp EXCEPT ![p] = [status |-> 200, body |-> s]]
       ELSE resp' = [resp EXCEPT ![p] = [status |-> 500, body |-> <<>>]]
    /\ log' = [log EXCEPT ![p] = Append(@, <<"SELECT", ok>>)]
    /\ UNCHANGED <<user_media, nextId, now, req, tx, held, releases, caught, ops, thrown>>

\* ---------------------------------------------------------- withTransaction
\* const client = await pool.connect()
Connect(p, ok) ==
    /\ pc[p] = "connect"
    /\ IF ok
       THEN /\ Cardinality({q \in Procs : held[q]}) < max
            /\ held' = [held EXCEPT ![p] = TRUE]
            /\ pc' = [pc EXCEPT ![p] = "BEGIN"]
            /\ UNCHANGED <<resp, caught, thrown>>
       ELSE \* the rejection leaves withTransaction before its try block
            /\ caught' = [caught EXCEPT ![p] = "connect"]
            /\ thrown' = [thrown EXCEPT ![p] = "connect"]
            /\ resp' = [resp EXCEPT ![p] = [status |-> 500, body |-> <<>>]]
            /\ pc' = [pc EXCEPT ![p] = "done"]
            /\ UNCHANGED held
    /\ UNCHANGED <<user_media, nextId, now, req, tx, releases, ops, log>>

\* a statement of the try block rejects: control enters the catch block,
\* which sends ROLLBACK
Catch(p, stmt) ==
    /\ caught' = [caught EXCEPT ![p] = stmt]
    /\ pc' = [pc EXCEPT ![p] = "ROLLBACK"]

\* fault: the callback runs without BEGIN having opened a transaction
Begin_NoTransaction(p, ok, dt) ==
    /\ pc[p] = "BEGIN"
    /\ Clock(dt)
    /\ IF ok
       THEN /\ pc' = [pc EXCEPT ![p] = "UPDATE"]
            /\ UNCHANGED caught
       ELSE Catch(p, "BEGIN")
    /\ log' = [log EXCEPT ![p] = Append(@, <<"BEGIN", ok>>)]
    /\ UNCHANGED <<user_media, nextId, req, tx, held, releases, resp, ops, thrown>>

\* await client.query('BEGIN')
Begin(p, ok, dt) ==
    /\ pc[p] = "BEGIN"
    /\ Clock(dt)
    /\ IF ok
       THEN /\ tx' = [tx EXCEPT ![p] = [open |-> TRUE, start |-> now', upd |-> {}, del |-> {}]]
            /\ pc' = [pc EXCEPT ![p] = "UPDATE"]
            /\ UNCHANGED caught
       ELSE /\ Catch(p, "BEGIN")
            /\ UNCHANGED tx
    /\ log' = [log EXCEPT ![p] = Append(@, <<"BEGIN", ok>>)]
    /\ UNCHANGED <<user_media, nextId, req, held, releases, resp, ops, thrown>>

\* the callback's first statement: clear the flag
Update(p, ok) ==
    /\ pc[p] = "UPDATE"
    /\ IF ok
       THEN /\ IF req[p].op = "remove"
               THEN ClientWrite(p, deleteItem_UPDATE_WHERE(View(p), req[p].u, req[p].m, req[p].k),
                                deleteItem_UPDATE(View(p), req[p].u, req[p].m, req[p].k, Now(p)))
               ELSE ClientWrite(p, deleteAll_UPDATE_WHERE(View(p), req[p].u, req[p].k),
                                deleteAll_UPDATE(View(p), req[p].u, req[p].k, Now(p)))
            /\ pc' = [pc EXCEPT ![p] = "DELETE"]
            /\ UNCHANGED caught
       ELSE /\ Catch(p, "UPDATE")
            /\ UNCHANGED <<user_media, tx>>
    /\ log' = [log EXCEPT ![p] = Append(@, <<"UPDATE", ok>>)]
    /\ UNCHANGED <<nextId, now, req, held, releases, resp, ops, thrown>>

\* fault: the callback swallows the error of its second statement, so
\* withTransaction goes on to COMMIT
Delete_SwallowsError(p, ok) ==
    /\ pc[p] = "DELETE"
    /\ IF ok
       THEN IF req[p].op = "remove"
            THEN ClientWrite(p, deleteItem_DELETE_WHERE(View(p), req[p].u, req[p].m),
                             deleteItem_DELETE(View(p), req[p].u, req[p].m))
            ELSE ClientWrite(p, deleteAll_DELETE_WHERE(View(p), req[p].u),
                             deleteAll_DELETE(View(p), req[p].u))
       ELSE UNCHANGED <<user_media, tx>>
    /\ pc' = [pc EXCEPT ![p] = "COMMIT"]
    /\ log' = [log EXCEPT ![p] = Append(@, <<"DELETE", ok>>)]
    /\ UNCHANGED <<nextId, now, req, held, releases, resp, ops, thrown, caught>>

\* the callback's second statement: delete the row(s) left without a flag
Delete(p, ok) ==
    /\ pc[p] = "DELETE"
    /\ IF ok
       THEN /\ IF req[p].op = "remove"
               THEN ClientWrite(p, deleteItem_DELETE_WHERE(View(p), req[p].u, req[p].m),
                                deleteItem_DELETE(View(p), req[p].u, req[p].m))
               ELSE ClientWrite(p, deleteAll_DELETE_WHERE(View(p), req[p].u),
                                deleteAll_DELETE(View(p), req[p].u))
            /\ pc' = [pc EXCEPT ![p] = "COMMIT"]
            /\ UNCHANGED caught
       ELSE /\ Catch(p, "DELETE")
            /\ UNCHANGED <<user_media, tx>>
    /\ log' = [log EXCEPT ![p] = Append(@, <<"DELETE", ok>>)]
    /\ UNCHANGED <<nextId, now, req, held, releases, resp, ops, thrown>>

\* finally { client.release() }
Release(p) ==
    /\ held' = [held EXCEPT ![p] = FALSE]
    /\ releases' = [releases EXCEPT ![p] = releases[p] + 1]

\* fault: the handler answers 204 without awaiting withTransaction, so the
\* response is out before COMMIT has been sent
Commit_RespondsFirst(p, ok, applied) ==
    /\ pc[p] = "COMMIT"
    /\ UNCHANGED <<user_media, tx>>
    /\ resp' = [resp EXCEPT ![p] = [status |-> 204, body |-> <<>>]]
    /\ pc' = [pc EXCEPT ![p] = "done"]
    /\ UNCHANGED <<caught, log, held, releases>>
    /\ UNCHANGED <<nextId, now, req, ops, thrown>>

\* await client.query('COMMIT'); return result; finally release; the handler
\* then sends 204.  A COMMIT that rejects may or may not have taken effect
\* on the server (applied).
Commit(p, ok, applied) ==
    /\ pc[p] = "COMMIT"
    /\ IF ok \/ applied
       THEN /\ user_media' = View(p)
            /\ tx' = [tx EXCEPT ![p] = NoTx]
       ELSE UNCHANGED <<user_media, tx>>
    /\ IF ok
       THEN /\ Release(p)
            /\ resp' = [resp EXCEPT ![p] = [status |-> 204, body |-> <<>>]]
            /\ pc' = [pc EXCEPT ![p] = "done"]
            /\ log' = [log EXCEPT ![p] = @ \o <<<<"COMMIT", TRUE>>, <<"release", TRUE>>>>]
            /\ UNCHANGED caught
       ELSE /\ Catch(p, "COMMIT")
            /\ log' = [log EXCEPT ![p] = Append(@, <<"COMMIT", FALSE>>)]
            /\ UNCHANGED <<held, releases, resp>>
    /\ UNCHANGED <<nextId, now, req, ops, thrown>>

\* fault: release() follows ROLLBACK inside the catch block instead of
\* standing in finally, so a rejecting ROLLBACK skips it
Rollback_ReleaseInCatch(p, ok) ==
    /\ pc[p] = "ROLLBACK"
    /\ tx' = [tx EXCEPT ![p] = NoTx]
    /\ IF ok THEN Release(p) ELSE UNCHANGED <<held, releases>>
    /\ thrown' = [thrown EXCEPT ![p] = IF ok THEN caught[p] ELSE "ROLLBACK"]
    /\ log' = [log EXCEPT ![p] = IF ok
                                  THEN @ \o <<<<"ROLLBACK", ok>>, <<"release", TRUE>>>>
                                  ELSE Append(@, <<"ROLLBACK", ok>>)]
    /\ resp' = [resp EXCEPT ![p] = [status |-> 500, body |-> <<>>]]
    /\ pc' = [pc EXCEPT ![p] = "done"]
    /\ UNCHANGED <<user_media, nextId, now, req, ops, caught>>

\* catch (error) { await client.query('ROLLBACK'); throw error } finally
\* release; the rejection reaches the error handler through next(error).
\* Whether ROLLBACK resolves or rejects (the connection is gone), the server
\* discards the transaction.  A ROLLBACK that rejects leaves the catch block
\* with its own error: throw error is not reached.
Rollback(p, ok) ==
    /\ pc[p] = "ROLLBACK"
    /\ tx' = [tx EXCEPT ![p] = NoTx]
    /\ Release(p)
    /\ thrown' = [thrown EXCEPT ![p] = IF ok THEN caught[p] ELSE "ROLLBACK"]
    /\ log' = [log EXCEPT ![p] = @ \o <<<<"ROLLBACK", ok>>, <<"release", TRUE>>>>]
    /\ resp' = [resp EXCEPT ![p] = [status |-> 500, body |-> <<>>]]
    /\ pc' = [pc EXCEPT ![p] = "done"]
    /\ UNCHANGED <<user_media, nextId, now, req, ops, caught>>

\* ----------------------------------------------------------- sanitization
\* the characters of body strings: a space, a letter, the null byte
Chars == {" ", "a", "NUL"}
\* what String.prototype.trim() removes; the null byte is not among it
WhiteSpace == {" "}

\* JSON values: a string is the sequence of its characters, an array or an
\* object the sequence of its items (an object with the keys beside them)
Str(s) == [type |-> "string", str |-> s, keys |-> <<>>, items |-> <<>>]
Num == [type |-> "number", str |-> <<>>, keys |-> <<>>, items |-> <<>>]
Null == [type |-> "null", str |-> <<>>, keys |-> <<>>, items |-> <<>>]
Arr(items) == [type |-> "array", str |-> <<>>, keys |-> <<>>, items |-> items]
Obj(keys, items) == [type |-> "object", str |-> <<>>, keys |-> keys, items |-> items]

\* typeof v === 'object'
IsObject(v) == v.type \in {"object", "array", "null"}

\* str.trim()
RECURSIVE trimStart(_)
trimStart(s) == IF s # <<>> /\ s[1] \in WhiteSpace THEN trimStart(Tail(s)) ELSE s
RECURSIVE trimEnd(_)
trimEnd(s) == IF s # <<>> /\ s[Len(s)] \in WhiteSpace THEN trimEnd(SubSeq(s, 1, Len(s) - 1)) ELSE s
trim(s) == trimEnd(trimStart(s))

\* str.replace(/\0/g, '')
replace(s) == SelectSeq(s, LAMBDA c : c # "NUL")

\* sanitizeString: trim, then remove the null bytes
sanitizeString(str) == replace(trim(str))

\* sanitizeObject: values that are not objects are returned as they are; the
\* items of an array and the values of an object are sanitized, strings by
\* sanitizeString, objects and arrays recursively
RECURSIVE sanitizeObject(_)
sanitizeObject(obj) ==
    IF ~IsObject(obj) \/ obj.type = "null"
    THEN obj
    ELSE IF obj.type = "array"
    THEN [obj EXCEPT !.items =
            [i \in 1..Len(obj.items) |->
                IF obj.items[i].type = "string"
                THEN Str(sanitizeString(obj.items[i].str))
                ELSE sanitizeObject(obj.items[i])]]
    ELSE [obj EXCEPT !.items =
            [i \in 1..Len(obj.items) |->
                IF obj.items[i].type = "string"
                THEN Str(sanitizeString(obj.items[i].str))
                ELSE IF IsObject(obj.items[i])
                THEN sanitizeObject(obj.items[i])
                ELSE obj.items[i]]]

\* sanitizeBody: req.body = sanitizeObject(req.body) when the body is an
\* object, then next()
sanitizeBody(p) ==
    /\ pc[p] = "sanitizeBody"
    /\ req' = [req EXCEPT ![p].body =
                  IF IsObject(req[p].body) /\ req[p].body.type # "null"
                  THEN sanitizeObject(req[p].body)
                  ELSE req[p].body]
    /\ pc' = [pc EXCEPT ![p] = "done"]
    /\ UNCHANGED <<user_media, nextId, now, tx, held, releases, caught, resp, ops, thrown, log, user_avatars>>

\* ------------------------------------------------------------- middleware
\* String(n) of a non-negative integer: its decimal digits
RECURSIVE String(_)
String(n) == IF n < 10 THEN <<n>> ELSE Append(String(n \div 10), n % 10)

\* parseInt(s, 10) of a string of digits
RECURSIVE parseInt(_)
parseInt(s) == IF s = <<>> THEN 0 ELSE 10 * parseInt(SubSeq(s, 1, Len(s) - 1)) + s[Len(s)]

\* verifyJWT: a token is given by its length, the number of its dot-separated
\* parts and the user identifier of its payload (0: none, which is falsy);
\* the payload is decoded, the signature is not verified
verifyJWT(token) ==
    [ok |-> ~(token.length < 10) /\ token.parts = 3 /\ token.user_id # 0,
     user_id |-> String(token.user_id)]

\* verifyApiKey: any key of 32 characters or more is the mock user '123'
verifyApiKey(apiKey) == [ok |-> ~(apiKey.length < 32), user_id |-> String(123)]

NoUser == [attached |-> FALSE, user_id |-> <<>>]

\* authenticate: 401 without a header, with a scheme other than Bearer or
\* ApiKey, and when the verification throws; otherwise request.user is set
authenticate(p) ==
    /\ pc[p] = "authenticate"
    /\ LET h == req[p].authorization
           v == CASE h.scheme = "Bearer" -> verifyJWT(h)
                  [] h.scheme = "ApiKey" -> verifyApiKey(h)
                  [] OTHER -> [ok |-> FALSE, user_id |-> <<>>]
       IN  IF v.ok
           THEN /\ req' = [req EXCEPT ![p].user = [attached |-> TRUE, user_id |-> v.user_id]]
                /\ pc' = [pc EXCEPT ![p] = "requireOwnUser"]
                /\ UNCHANGED resp
           ELSE /\ resp' = [resp EXCEPT ![p] = [status |-> 401, body |-> <<>>]]
                /\ pc' = [pc EXCEPT ![p] = "done"]
                /\ UNCHANGED req
    /\ UNCHANGED <<user_media, nextId, now, tx, held, releases, caught, ops, thrown, log, user_avatars>>

\* the handler behind the middleware chain of request r, at its first await
Handler(r) ==
    CASE r.op = "add" -> "add"
      [] r.op = "list" -> "list"
      [] r.op \in {"remove", "removeAll"} -> "connect"
      [] r.op = "getUserAvatar" -> "getUserAvatar"
      [] r.op = "updateUserAvatar" -> "avatarCheck"

\* fault: the comparison is left out, any authenticated user passes
requireOwnUser_AnyUser(p) ==
    /\ pc[p] = "requireOwnUser"
    /\ pc' = [pc EXCEPT ![p] = Handler(req[p])]
    /\ UNCHANGED resp
    /\ UNCHANGED <<user_media, nextId, now, req, tx, held, releases, caught, ops, thrown, log, user_avatars>>

\* requireOwnUser: user.user_id !== params.userid ends in next(error) with
\* an AppError of status 403, which the error handler sends; otherwise the
\* chain goes on (the validators pass the well-formed requests modelled
\* here) to the handler
requireOwnUser(p) ==
    /\ pc[p] = "requireOwnUser"
    /\ IF req[p].user.user_id # req[p].userid
       THEN /\ resp' = [resp EXCEPT ![p] = [status |-> 403, body |-> <<>>]]
            /\ pc' = [pc EXCEPT ![p] = "done"]
       ELSE /\ pc' = [pc EXCEPT ![p] = Handler(req[p])]
            /\ UNCHANGED resp
    /\ UNCHANGED <<user_media, nextId, now, req, tx, held, releases, caught, ops, thrown, log, user_avatars>>

\* ----------------------------------------------------------------- the pool
\* connectToDatabase, up to its await: an existing pool is reported with
\* console.warn and the call returns; otherwise the pool is created and
\* assigned, then tested.
connectToDatabase(p) ==
    /\ pc[p] = "idle"
    /\ ops < MaxOps
    /\ ops' = ops + 1
    /\ req' = [req EXCEPT ![p] = [op |-> "connectToDatabase", existed |-> pool # "null"]]
    /\ IF pool # "null"
       THEN /\ pc' = [pc EXCEPT ![p] = "done"]
            /\ connected' = TRUE
            /\ UNCHANGED pool
       ELSE /\ pool' = "Pool"
            /\ pc' = [pc EXCEPT ![p] = "pool.connect"]
            /\ UNCHANGED connected
    /\ UNCHANGED <<user_media, nextId, now, tx, held, releases, caught, resp, thrown, log>>

\* const client = await pool.connect(); client.release(): the connection
\* test.  The catch block logs and rethrows; pool keeps its value.
pool_connect(p, ok) ==
    /\ pc[p] = "pool.connect"
    /\ pc' = [pc EXCEPT ![p] = "done"]
    /\ log' = [log EXCEPT ![p] = Append(@, <<"pool.connect", ok>>)]
    /\ thrown' = [thrown EXCEPT ![p] = IF ok THEN "none" ELSE "connect"]
    /\ connected' = (IF ok THEN TRUE ELSE connected)
    /\ UNCHANGED <<user_media, nextId, now, req, tx, held, releases, caught, resp, ops, pool>>

\* getPool: synchronous.  The request records whether the pool counted as
\* connected when the call was made.
getPool(p) ==
    /\ pc[p] = "idle"
    /\ ops < MaxOps
    /\ ops' = ops + 1
    /\ req' = [req EXCEPT ![p] = [op |-> "getPool", connected |-> connected]]
    /\ pc' = [pc EXCEPT ![p] = "done"]
    /\ IF pool = "null"
       THEN /\ thrown' = [thrown EXCEPT ![p] = "not initialized"]
            /\ UNCHANGED resp
       ELSE /\ resp' = [resp EXCEPT ![p] = [status |-> 0, body |-> <<pool>>]]
            /\ UNCHANGED thrown
    /\ UNCHANGED <<user_media, nextId, now, tx, held, releases, caught, log, pool, connected>>

\* disconnectFromDatabase, up to its await
disconnectFromDatabase(p) ==
    /\ pc[p] = "idle"
    /\ ops < MaxOps
    /\ ops' = ops + 1
    /\ req' = [req EXCEPT ![p] = [op |-> "disconnectFromDatabase"]]
    /\ IF pool # "null"
       THEN /\ pc' = [pc EXCEPT ![p] = "pool.end"]
            /\ UNCHANGED connected
       ELSE /\ pc' = [pc EXCEPT ![p] = "done"]
            /\ connected' = FALSE
    /\ UNCHANGED <<user_media, nextId, now, tx, held, releases, caught, resp, thrown, log, pool>>

\* await pool.end(); pool = null.  A rejecting end() is rethrown and pool
\* keeps its value.
pool_end(p, ok) ==
    /\ pc[p] = "pool.end"
    /\ pc' = [pc EXCEPT ![p] = "done"]
    /\ log' = [log EXCEPT ![p] = Append(@, <<"pool.end", ok>>)]
    /\ thrown' = [thrown EXCEPT ![p] = IF ok THEN "none" ELSE "end"]
    /\ pool' = (IF ok THEN "null" ELSE pool)
    /\ connected' = (IF ok THEN FALSE ELSE connected)
    /\ UNCHANGED <<user_media, nextId, now, req, tx, held, releases, caught, resp, ops>>

\* ------------------------------------------------------------------ avatars
\* INSERT INTO avatars (avatar_name, avatar_url, is_default) VALUES ...: the
\* seven predefined avatars, avatar_id 1 the default.  No handler writes
\* this table.
avatar_names ==
    <<"Avatar 0 Smile", "Avatar 1 Bird", "Avatar 2 Girl", "Avatar 3 Dog",
      "Avatar 4 Rhino", "Avatar 5 Sheep", "Avatar 6 T-Rex">>
avatar_urls ==
    <<"/public/images/avatars/default/avatar0.png", "/public/images/avatars/default/avatar1.png",
      "/public/images/avatars/default/avatar2.png", "/public/images/avatars/default/avatar3.png",
      "/public/images/avatars/default/avatar4.png", "/public/images/avatars/default/avatar5.png",
      "/public/images/avatars/default/avatar6.png">>
avatars ==
    {[avatar_id |-> i, avatar_name |-> avatar_names[i], avatar_url |-> avatar_urls[i],
      is_default |-> (i = 1 /\ seeded_default)] : i \in 1..Len(avatar_names)}

\* avatar_id values of request bodies: two of the catalog, one unknown
AvatarIds == {2, 5, 999}

\* SELECT avatar_id, avatar_name, avatar_url
Avatar(a) == [avatar_id |-> a.avatar_id, avatar_name |-> a.avatar_name, avatar_url |-> a.avatar_url]

\* SELECT avatar_id FROM avatars WHERE avatar_id = $1
avatarCheck_SELECT(id) == {[avatar_id |-> a.avatar_id] : a \in {x \in avatars : x.avatar_id = id}}

\* SELECT avatar_id, avatar_name, avatar_url FROM avatars WHERE avatar_id = $1
updateUserAvatar_SELECT(id) == {Avatar(a) : a \in {x \in avatars : x.avatar_id = id}}

\* fault: a plain INSERT on a table without its primary key
updateUserAvatar_INSERT_NoConflict(T, u, id, ts) ==
    T \cup {[user_id |-> u, avatar_id |-> id, created_at |-> ts, updated_at |-> ts]}

\* INSERT INTO user_avatars (user_id, avatar_id) VALUES ($1, $2)
\* ON CONFLICT (user_id) DO UPDATE SET avatar_id = EXCLUDED.avatar_id,
\* updated_at = NOW()
updateUserAvatar_INSERT(T, u, id, ts) ==
    LET hit == {r \in T : r.user_id = u} IN
    IF hit = {}
    THEN T \cup {[user_id |-> u, avatar_id |-> id, created_at |-> ts, updated_at |-> ts]}
    ELSE (T \ hit) \cup {[r EXCEPT !.avatar_id = id, !.updated_at = ts] : r \in hit}

\* fault: the query has no fallback branch
getUserAvatar_SELECT_NoFallback(T, u) ==
    {Avatar(a) : a \in {x \in avatars : \E ua \in T : ua.user_id = u /\ ua.avatar_id = x.avatar_id}}

\* fault: the default branch lacks its NOT EXISTS test
getUserAvatar_SELECT_DefaultAlways(T, u) ==
    {Avatar(a) : a \in {x \in avatars : \E ua \in T : ua.user_id = u /\ ua.avatar_id = x.avatar_id}}
    \cup {Avatar(a) : a \in {x \in avatars : x.is_default}}

\* SELECT ... FROM user_avatars ua JOIN avatars a ON ua.avatar_id = a.avatar_id
\* WHERE ua.user_id = $1 UNION ALL SELECT ... FROM avatars WHERE is_default =
\* TRUE AND NOT EXISTS (SELECT 1 FROM user_avatars WHERE user_id = $1) LIMIT 1:
\* the rows of which LIMIT 1 returns any one
getUserAvatar_SELECT(T, u) ==
    {Avatar(a) : a \in {x \in avatars : \E ua \in T : ua.user_id = u /\ ua.avatar_id = x.avatar_id}}
    \cup {Avatar(a) : a \in {x \in avatars : x.is_default /\ ~\E ua \in T : ua.user_id = u}}

\* fault: the fallback is materialized, the default avatar is assigned to a
\* user who has no row
getUserAvatar_Materializes(p, ok) ==
    /\ pc[p] = "getUserAvatar"
    /\ pc' = [pc EXCEPT ![p] = "done"]
    /\ IF ok
       THEN LET rows == getUserAvatar_SELECT(user_avatars, req[p].u) IN
            /\ IF rows = {}
               THEN resp' = [resp EXCEPT ![p] = [status |-> 404, body |-> <<>>]]
               ELSE \E row \in rows : resp' = [resp EXCEPT ![p] = [status |-> 200, body |-> <<row>>]]
            /\ user_avatars' =
                  IF \E ua \in user_avatars : ua.user_id = req[p].u
                  THEN user_avatars
                  ELSE user_avatars \cup
                         {[user_id |-> req[p].u, avatar_id |-> a.avatar_id,
                           created_at |-> now, updated_at |-> now] : a \in {x \in avatars : x.is_default}}
       ELSE /\ resp' = [resp EXCEPT ![p] = [status |-> 500, body |-> <<>>]]
            /\ UNCHANGED user_avatars
    /\ log' = [log EXCEPT ![p] = Append(@, <<"SELECT", ok>>)]
    /\ UNCHANGED <<user_media, nextId, now, req, tx, held, releases, caught, ops, thrown>>

\* GET /:userid/avatar
getUserAvatar(p, ok) ==
    /\ pc[p] = "getUserAvatar"
    /\ pc' = [pc EXCEPT ![p] = "done"]
    /\ IF ok
       THEN LET rows == getUserAvatar_SELECT(user_avatars, req[p].u) IN
            IF rows = {}
            THEN resp' = [resp EXCEPT ![p] = [status |-> 404, body |-> <<>>]]
            ELSE \E row \in rows : resp' = [resp EXCEPT ![p] = [status |-> 200, body |-> <<row>>]]
       ELSE resp' = [resp EXCEPT ![p] = [status |-> 500, body |-> <<>>]]
    /\ log' = [log EXCEPT ![p] = Append(@, <<"SELECT", ok>>)]
    /\ UNCHANGED <<user_media, nextId, now, req, tx, held, releases, caught, ops, user_avatars, thrown>>

\* fault: the handler goes on to the upsert whatever the check returned
avatarCheck_NoReturn(p, ok) ==
    /\ pc[p] = "avatarCheck"
    /\ IF ok
       THEN pc' = [pc EXCEPT ![p] = "INSERT"] /\ UNCHANGED resp
       ELSE /\ resp' = [resp EXCEPT ![p] = [status |-> 500, body |-> <<>>]]
            /\ pc' = [pc EXCEPT ![p] = "done"]
    /\ log' = [log EXCEPT ![p] = Append(@, <<"SELECT", ok>>)]
    /\ UNCHANGED <<user_media, nextId, now, req, tx, held, releases, caught, ops, user_avatars, thrown>>

\* PATCH /:userid/avatar, first await: verify the avatar exists
avatarCheck(p, ok) ==
    /\ pc[p] = "avatarCheck"
    /\ IF ok
       THEN IF avatarCheck_SELECT(req[p].avatar_id) = {}
            THEN /\ resp' = [resp EXCEPT ![p] = [status |-> 404, body |-> <<>>]]
                 /\ pc' = [pc EXCEPT ![p] = "done"]
            ELSE pc' = [pc EXCEPT ![p] = "INSERT"] /\ UNCHANGED resp
       ELSE /\ resp' = [resp EXCEPT ![p] = [status |-> 500, body |-> <<>>]]
            /\ pc' = [pc EXCEPT ![p] = "done"]
    /\ log' = [log EXCEPT ![p] = Append(@, <<"SELECT", ok>>)]
    /\ UNCHANGED <<user_media, nextId, now, req, tx, held, releases, caught, ops, user_avatars, thrown>>

\* PATCH /:userid/avatar, second await: the upsert, committed on its own
updateUserAvatar_upsert(p, ok, dt) ==
    /\ pc[p] = "INSERT"
    /\ Clock(dt)
    /\ IF ok
       THEN /\ user_avatars' = updateUserAvatar_INSERT(user_avatars, req[p].u, req[p].avatar_id, now')
            /\ pc' = [pc EXCEPT ![p] = "SELECT"]
            /\ UNCHANGED resp
       ELSE /\ resp' = [resp EXCEPT ![p] = [status |-> 500, body |-> <<>>]]
            /\ pc' = [pc EXCEPT ![p] = "done"]
            /\ UNCHANGED user_avatars
    /\ log' = [log EXCEPT ![p] = Append(@, <<"INSERT", ok>>)]
    /\ UNCHANGED <<user_media, nextId, req, tx, held, releases, caught, ops, thrown>>

\* PATCH /:userid/avatar, third await: fetch the avatar and send it
\* (result.rows[0]; the JSON body of undefined is empty)
updateUserAvatar_fetch(p, ok) ==
    /\ pc[p] = "SELECT"
    /\ pc' = [pc EXCEPT ![p] = "done"]
    /\ IF ok
       THEN LET rows == updateUserAvatar_SELECT(req[p].avatar_id) IN
            IF rows = {}
            THEN resp' = [resp EXCEPT ![p] = [status |-> 200, body |-> <<>>]]
            ELSE \E row \in rows : resp' = [resp EXCEPT ![p] = [status |-> 200, body |-> <<row>>]]
       ELSE resp' = [resp EXCEPT ![p] = [status |-> 500, body |-> <<>>]]
    /\ log' = [log EXCEPT ![p] = Append(@, <<"SELECT", ok>>)]
    /\ UNCHANGED <<user_media, nextId, now, req, tx, held, releases, caught, ops, user_avatars, thrown>>

\* ------------------------------------------------------------ specification
Reqs(U, M, Ty) ==
    {[op |-> "add", u |-> u, m |-> m, t |-> t, k |-> k] :
        u \in U, m \in M, t \in Ty, k \in Kinds}
    \cup {[op |-> "remove", u |-> u, m |-> m, t |-> "", k |-> k] : u \in U, m \in M, k \in Kinds}
    \cup {[op |-> "removeAll", u |-> u, m |-> "", t |-> "", k |-> k] : u \in U, k \in Kinds}
    \cup {[op |-> "list", u |-> u, m |-> "", t |-> "", k |-> k] : u \in U, k \in Kinds}

\* the first await of the handler of request r
First(r) ==
    CASE r.op = "add" -> "add"
      [] r.op = "list" -> "list"
      [] r.op \in {"remove", "removeAll"} -> "connect"

\* a request of R reaches handler p
Request(p, R) == \E r \in R : Start(p, r, First(r))

\* the requests for one item of one user
OneItem == Reqs({456}, {"tt1"}, {"movie"})

\* Two handlers run any requests for one item concurrently; every statement
\* resolves.
Next ==
    \/ \E p \in Procs : Request(p, OneItem) /\ UNCHANGED <<hist, user_avatars, db>>
    \/ \E p \in Procs, ok \in {TRUE}, dt \in 0..1 : addTo(p, ok, dt) /\ UNCHANGED <<hist, user_avatars, db>>
    \/ \E p \in Procs, ok \in {TRUE} : get(p, ok) /\ UNCHANGED <<hist, user_avatars, db>>
    \/ \E p \in Procs, ok \in {TRUE} : Connect(p, ok) /\ UNCHANGED <<hist, user_avatars, db>>
    \/ \E p \in Procs, ok \in {TRUE}, dt \in 0..1 : Begin(p, ok, dt) /\ UNCHANGED <<hist, user_avatars, db>>
    \/ \E p \in Procs, ok \in {TRUE} : Update(p, ok) /\ UNCHANGED <<hist, user_avatars, db>>
    \/ \E p \in Procs, ok \in {TRUE} : Delete(p, ok) /\ UNCHANGED <<hist, user_avatars, db>>
    \/ \E p \in Procs, ok \in {TRUE}, applied \in {TRUE} : Commit(p, ok, applied) /\ UNCHANGED <<hist, user_avatars, db>>
    \/ \E p \in Procs : Return(p) /\ UNCHANGED <<hist, user_avatars, db>>

Spec == Init /\ [][Next]_vars

\* A handler that removes and a handler that adds and lists run concurrently
\* on one item; every statement may reject.
FailNext ==
    \/ Request("h1", {r \in OneItem : r.op \in {"remove", "removeAll"}}) /\ UNCHANGED <<hist, user_avatars, db>>
    \/ Request("h2", {r \in OneItem : r.op \in {"add", "list"}}) /\ UNCHANGED <<hist, user_avatars, db>>
    \/ \E p \in Procs, ok \in BOOLEAN, dt \in 0..1 : addTo(p, ok, dt) /\ UNCHANGED <<hist, user_avatars, db>>
    \/ \E p \in Procs, ok \in BOOLEAN : get(p, ok) /\ UNCHANGED <<hist, user_avatars, db>>
    \/ \E p \in Procs, ok \in BOOLEAN : Connect(p, ok) /\ UNCHANGED <<hist, user_avatars, db>>
    \/ \E p \in Procs, ok \in BOOLEAN, dt \in 0..1 : Begin(p, ok, dt) /\ UNCHANGED <<hist, user_avatars, db>>
    \/ \E p \in Procs, ok \in BOOLEAN : Update(p, ok) /\ UNCHANGED <<hist, user_avatars, db>>
    \/ \E p \in Procs, ok \in BOOLEAN : Delete(p, ok) /\ UNCHANGED <<hist, user_avatars, db>>
    \/ \E p \in Procs, ok \in BOOLEAN, applied \in BOOLEAN : Commit(p, ok, applied) /\ UNCHANGED <<hist, user_avatars, db>>
    \/ \E p \in Procs, ok \in BOOLEAN : Rollback(p, ok) /\ UNCHANGED <<hist, user_avatars, db>>
    \/ \E p \in Procs : Return(p) /\ UNCHANGED <<hist, user_avatars, db>>

FailSpec == Init /\ [][FailNext]_vars

\* A handler that removes and a handler that adds run concurrently on one
\* item; every statement resolves.  last is the request that returned last.
RaceNext ==
    \/ Request("h1", {r \in OneItem : r.op = "remove"}) /\ UNCHANGED <<hist, user_avatars, db>>
    \/ Request("h2", {r \in OneItem : r.op = "add"}) /\ UNCHANGED <<hist, user_avatars, db>>
    \/ \E p \in Procs, ok \in {TRUE}, dt \in 0..1 : addTo(p, ok, dt) /\ UNCHANGED <<hist, user_avatars, db>>
    \/ \E p \in Procs, ok \in {TRUE} : Connect(p, ok) /\ UNCHANGED <<hist, user_avatars, db>>
    \/ \E p \in Procs, ok \in {TRUE}, dt \in 0..1 : Begin(p, ok, dt) /\ UNCHANGED <<hist, user_avatars, db>>
    \/ \E p \in Procs, ok \in {TRUE} : Update(p, ok) /\ UNCHANGED <<hist, user_avatars, db>>
    \/ \E p \in Procs, ok \in {TRUE} : Delete(p, ok) /\ UNCHANGED <<hist, user_avatars, db>>
    \/ \E p \in Procs, ok \in {TRUE}, applied \in {TRUE} : Commit(p, ok, applied) /\ UNCHANGED <<hist, user_avatars, db>>
    \/ \E p \in Procs : Return(p) /\ last' = req[p]
                                    /\ UNCHANGED <<pre, lastResp, assigned, user_avatars, db>>

RaceSpec == Init /\ [][RaceNext]_vars

\* One call at a time on the items of one user; every statement resolves.
SeqRequests == {r \in Reqs({456}, MediaIds, MediaTypes) : r.op # "list"}

\* the request of the call that returned last
SeqHist ==
    /\ last' = (IF pc'["h1"] = "idle" THEN req["h1"] ELSE last)
    /\ UNCHANGED <<pre, lastResp, assigned, user_avatars, db>>

SeqNext ==
    \/ Request("h1", SeqRequests) /\ pre' = user_media /\ UNCHANGED <<last, lastResp, assigned, user_avatars, db>>
    \/ \E ok \in {TRUE}, dt \in 0..1 : addTo("h1", ok, dt) /\ SeqHist
    \/ \E ok \in {TRUE} : Connect("h1", ok) /\ SeqHist
    \/ \E ok \in {TRUE}, dt \in 0..1 : Begin("h1", ok, dt) /\ SeqHist
    \/ \E ok \in {TRUE} : Update("h1", ok) /\ SeqHist
    \/ \E ok \in {TRUE} : Delete("h1", ok) /\ SeqHist
    \/ \E ok \in {TRUE}, applied \in {TRUE} : Commit("h1", ok, applied) /\ SeqHist
    \/ Return("h1") /\ SeqHist

SeqSpec == Init /\ [][SeqNext]_vars

\* One call at a time on the items of two users, on two of the lists; every
\* statement resolves.  pre is the table when the call started.
FrameRequests ==
    {r \in Reqs(Users, MediaIds, {"movie"}) : r.op # "list" /\ r.k \in {"favorites", "watched"}}

FrameNext ==
    \/ Request("h1", FrameRequests) /\ pre' = user_media /\ UNCHANGED <<last, lastResp, assigned, user_avatars, db>>
    \/ \E ok \in {TRUE}, dt \in 0..1 : addTo("h1", ok, dt) /\ SeqHist
    \/ \E ok \in {TRUE} : Connect("h1", ok) /\ SeqHist
    \/ \E ok \in {TRUE}, dt \in 0..1 : Begin("h1", ok, dt) /\ SeqHist
    \/ \E ok \in {TRUE} : Update("h1", ok) /\ SeqHist
    \/ \E ok \in {TRUE} : Delete("h1", ok) /\ SeqHist
    \/ \E ok \in {TRUE}, applied \in {TRUE} : Commit("h1", ok, applied) /\ SeqHist
    \/ Return("h1") /\ SeqHist

FrameSpec == Init /\ [][FrameNext]_vars

\* One call at a time, adds and lists: user 456 adds to and lists favorites
\* and watched, user 789 has one favorite.  pre is the table before the last
\* add, last and lastResp the call before the running one.
ListAdds ==
    {r \in Reqs({456}, MediaIds, MediaTypes) : r.op = "add" /\ r.k \in {"favorites", "watched"}}
    \cup {r \in Reqs({789}, {"tt1"}, {"movie"}) : r.op = "add" /\ r.k = "favorites"}
ListReads == {r \in Reqs({456}, {"tt1"}, {"movie"}) : r.op = "list" /\ r.k \in {"favorites", "watched"}}

ListHist ==
    /\ last' = (IF pc'["h1"] = "idle" THEN req["h1"] ELSE last)
    /\ lastResp' = (IF pc'["h1"] = "idle" THEN resp["h1"] ELSE lastResp)
    /\ UNCHANGED <<pre, assigned, user_avatars, db>>

ListNext ==
    \/ Request("h1", ListAdds) /\ pre' = user_media /\ UNCHANGED <<last, lastResp, assigned, user_avatars, db>>
    \/ \E r \in ListReads : StartRead("h1", r, First(r)) /\ UNCHANGED <<hist, user_avatars, db>>
    \/ \E ok \in {TRUE}, dt \in 0..1 : addTo("h1", ok, dt) /\ ListHist
    \/ \E ok \in {TRUE} : get("h1", ok) /\ ListHist
    \/ Return("h1") /\ ListHist

ListSpec == Init /\ [][ListNext]_vars

\* the avatar requests
AvatarUpdates == {[op |-> "updateUserAvatar", u |-> u, avatar_id |-> a] : u \in Users, a \in AvatarIds}
AvatarReads == {[op |-> "getUserAvatar", u |-> u] : u \in Users}

\* Two handlers run avatar requests concurrently; every statement resolves.
AvatarNext ==
    \/ \E p \in Procs, r \in AvatarUpdates : Start(p, r, "avatarCheck") /\ UNCHANGED <<hist, user_avatars, db>>
    \/ \E p \in Procs, r \in AvatarReads : StartRead(p, r, "getUserAvatar") /\ UNCHANGED <<hist, user_avatars, db>>
    \/ \E p \in Procs, ok \in {TRUE} : getUserAvatar(p, ok) /\ UNCHANGED <<hist, db>>
    \/ \E p \in Procs, ok \in {TRUE} : avatarCheck(p, ok) /\ UNCHANGED <<hist, db>>
    \/ \E p \in Procs, ok \in {TRUE}, dt \in 0..1 : updateUserAvatar_upsert(p, ok, dt) /\ UNCHANGED <<hist, db>>
    \/ \E p \in Procs, ok \in {TRUE} : updateUserAvatar_fetch(p, ok) /\ UNCHANGED <<hist, db>>
    \/ \E p \in Procs : Return(p) /\ UNCHANGED <<hist, user_avatars, db>>

AvatarSpec == Init /\ [][AvatarNext]_vars

\* One avatar call at a time.  pre is user_avatars when the last PATCH
\* started, last and lastResp the call before the running one, assigned[u]
\* the avatar_id of the last PATCH for u that returned 200.
AvatarHist ==
    /\ last' = (IF pc'["h1"] = "idle" THEN req["h1"] ELSE last)
    /\ lastResp' = (IF pc'["h1"] = "idle" THEN resp["h1"] ELSE lastResp)
    /\ assigned' = (IF pc'["h1"] = "idle" /\ req["h1"].op = "updateUserAvatar"
                                         /\ resp["h1"].status = 200
                    THEN [assigned EXCEPT ![req["h1"].u] = req["h1"].avatar_id]
                    ELSE assigned)
    /\ UNCHANGED <<pre, db>>

AvatarSeqNext ==
    \/ \E r \in AvatarUpdates : Start("h1", r, "avatarCheck")
                                   /\ pre' = user_avatars
                                   /\ UNCHANGED <<last, lastResp, assigned, user_avatars, db>>
    \/ \E r \in AvatarReads : StartRead("h1", r, "getUserAvatar")
                                 /\ UNCHANGED <<hist, user_avatars, db>>
    \/ \E ok \in {TRUE} : getUserAvatar("h1", ok) /\ AvatarHist
    \/ \E ok \in {TRUE} : avatarCheck("h1", ok) /\ AvatarHist
    \/ \E ok \in {TRUE}, dt \in 0..1 : updateUserAvatar_upsert("h1", ok, dt) /\ AvatarHist
    \/ \E ok \in {TRUE} : updateUserAvatar_fetch("h1", ok) /\ AvatarHist
    \/ Return("h1") /\ AvatarHist /\ UNCHANGED user_avatars

AvatarSeqSpec == Init /\ [][AvatarSeqNext]_vars

\* One avatar call at a time on a catalog whose default flag may have been
\* cleared (is_default is a plain column, BOOLEAN DEFAULT FALSE).
CatalogInit ==
    /\ Booted
    /\ pool = "Pool"
    /\ connected = TRUE
    /\ seeded_default \in BOOLEAN

CatalogSpec == CatalogInit /\ [][AvatarSeqNext]_vars

\* The process has just started: pool is null.  Two callers use the pool
\* module concurrently; the connection test and end() may reject.
PoolInit ==
    /\ Booted
    /\ pool = "null"
    /\ connected = FALSE
    /\ seeded_default = TRUE

PoolNext ==
    \/ \E p \in Procs : connectToDatabase(p) /\ UNCHANGED <<hist, user_avatars, seeded_default>>
    \/ \E p \in Procs, ok \in BOOLEAN : pool_connect(p, ok) /\ UNCHANGED <<hist, user_avatars, seeded_default>>
    \/ \E p \in Procs : getPool(p) /\ UNCHANGED <<hist, user_avatars, seeded_default>>
    \/ \E p \in Procs : disconnectFromDatabase(p) /\ UNCHANGED <<hist, user_avatars, seeded_default>>
    \/ \E p \in Procs, ok \in BOOLEAN : pool_end(p, ok) /\ UNCHANGED <<hist, user_avatars, seeded_default>>
    \/ \E p \in Procs : Return(p) /\ UNCHANGED <<hist, user_avatars, db>>

PoolSpec == PoolInit /\ [][PoolNext]_vars

\* Authorization headers: none, a scheme that is neither Bearer nor ApiKey,
\* Bearer tokens that are too short, have two parts, carry no identifier,
\* or carry user 456 or 789, an ApiKey that is too short and one that passes
Authorizations ==
    {[scheme |-> "none", length |-> 0, parts |-> 0, user_id |-> 0],
     [scheme |-> "Basic", length |-> 20, parts |-> 1, user_id |-> 0],
     [scheme |-> "Bearer", length |-> 5, parts |-> 1, user_id |-> 0],
     [scheme |-> "Bearer", length |-> 40, parts |-> 2, user_id |-> 456],
     [scheme |-> "ApiKey", length |-> 10, parts |-> 1, user_id |-> 0],
     [scheme |-> "ApiKey", length |-> 32, parts |-> 1, user_id |-> 0]}
    \cup {[scheme |-> "Bearer", length |-> 40, parts |-> 3, user_id |-> u] : u \in Users \cup {0}}

\* requests as they reach the router: :userid is a string, the handler
\* works on parseInt(userid)
Routed(R) ==
    {[op |-> r.op, u |-> parseInt(userid), m |-> r.m, t |-> r.t, k |-> r.k, avatar_id |-> r.avatar_id,
      userid |-> userid, authorization |-> h, user |-> NoUser] :
        r \in R, userid \in {String(u) : u \in Users}, h \in Authorizations}

AuthWrites ==
    Routed({[op |-> "add", m |-> "tt1", t |-> "movie", k |-> "favorites", avatar_id |-> 0],
            [op |-> "remove", m |-> "tt1", t |-> "", k |-> "favorites", avatar_id |-> 0],
            [op |-> "removeAll", m |-> "", t |-> "", k |-> "favorites", avatar_id |-> 0],
            [op |-> "updateUserAvatar", m |-> "", t |-> "", k |-> "", avatar_id |-> 2]})
AuthReads ==
    Routed({[op |-> "list", m |-> "", t |-> "", k |-> "favorites", avatar_id |-> 0],
            [op |-> "getUserAvatar", m |-> "", t |-> "", k |-> "", avatar_id |-> 0]})

\* One request at a time through authenticate, requireOwnUser and its
\* handler; every statement resolves.  pre is the pair of tables when the
\* request arrived.
AuthNext ==
    \/ \E r \in AuthWrites : Start("h1", r, "authenticate")
                                /\ pre' = <<user_media, user_avatars>>
                                /\ UNCHANGED <<last, lastResp, assigned, user_avatars, db>>
    \/ \E r \in AuthReads : StartRead("h1", r, "authenticate")
                               /\ pre' = <<user_media, user_avatars>>
                               /\ UNCHANGED <<last, lastResp, assigned, user_avatars, db>>
    \/ authenticate("h1") /\ UNCHANGED <<hist, db>>
    \/ requireOwnUser("h1") /\ UNCHANGED <<hist, db>>
    \/ \E ok \in {TRUE}, dt \in 0..1 : addTo("h1", ok, dt) /\ UNCHANGED <<hist, user_avatars, db>>
    \/ \E ok \in {TRUE} : get("h1", ok) /\ UNCHANGED <<hist, user_avatars, db>>
    \/ \E ok \in {TRUE} : Connect("h1", ok) /\ UNCHANGED <<hist, user_avatars, db>>
    \/ \E ok \in {TRUE}, dt \in 0..1 : Begin("h1", ok, dt) /\ UNCHANGED <<hist, user_avatars, db>>
    \/ \E ok \in {TRUE} : Update("h1", ok) /\ UNCHANGED <<hist, user_avatars, db>>
    \/ \E ok \in {TRUE} : Delete("h1", ok) /\ UNCHANGED <<hist, user_avatars, db>>
    \/ \E ok \in {TRUE}, applied \in {TRUE} : Commit("h1", ok, applied) /\ UNCHANGED <<hist, user_avatars, db>>
    \/ \E ok \in {TRUE} : getUserAvatar("h1", ok) /\ UNCHANGED <<hist, db>>
    \/ \E ok \in {TRUE} : avatarCheck("h1", ok) /\ UNCHANGED <<hist, db>>
    \/ \E ok \in {TRUE}, dt \in 0..1 : updateUserAvatar_upsert("h1", ok, dt) /\ UNCHANGED <<hist, db>>
    \/ \E ok \in {TRUE} : updateUserAvatar_fetch("h1", ok) /\ UNCHANGED <<hist, db>>
    \/ Return("h1") /\ UNCHANGED <<hist, user_avatars, db>>

AuthSpec == Init /\ [][AuthNext]_vars

\* the strings of at most MaxLen characters
Strings == UNION {[1..n -> Chars] : n \in 0..MaxLen}

\* request bodies holding the string s: as a field, inside a nested object
\* beside a number and a null, inside an array and its nested array, and in
\* an array body beside an object
Bodies ==
    UNION {{Obj(<<"title">>, <<Str(s)>>),
            Obj(<<"year", "meta">>, <<Num, Obj(<<"note", "none">>, <<Str(s), Null>>)>>),
            Obj(<<"tags">>, <<Arr(<<Str(s), Arr(<<Str(s), Num>>)>>)>>),
            Arr(<<Str(s), Obj(<<"media_id">>, <<Str(s)>>)>>)} : s \in Strings}

\* A POST request with a body of Bodies is at its sanitizeBody middleware;
\* last keeps the request as it arrived.
SanitizeInit ==
    /\ \E b \in Bodies :
          /\ req = [p \in Procs |-> IF p = "h1" THEN [op |-> "add", body |-> b] ELSE NoReq]
          /\ last = [op |-> "add", body |-> b]
    /\ pc = [p \in Procs |-> IF p = "h1" THEN "sanitizeBody" ELSE "idle"]
    /\ user_media = {} /\ nextId = 1 /\ now = 1 /\ ops = 0 /\ pre = {}
    /\ tx = [p \in Procs |-> NoTx]
    /\ held = [p \in Procs |-> FALSE]
    /\ releases = [p \in Procs |-> 0]
    /\ caught = [p \in Procs |-> "none"]
    /\ thrown = [p \in Procs |-> "none"]
    /\ log = [p \in Procs |-> <<>>]
    /\ resp = [p \in Procs |-> NoResp]
    /\ lastResp = NoResp
    /\ assigned = [u \in Users |-> NULL]
    /\ user_avatars = {}
    /\ pool = "Pool" /\ connected = TRUE /\ seeded_default = TRUE

SanitizeNext == sanitizeBody("h1") /\ UNCHANGED <<hist, db>>

SanitizeSpec == SanitizeInit /\ [][SanitizeNext]_vars

\* ------------------------------------------------------------------ claims
\* every call has run to its response
AllCompleted == \A p \in Procs : pc[p] \in {"idle", "done"}

\* C1: after any sequence of completed add, remove and removeAll calls no
\* user_media row has is_watchlist, is_favorite and is_watched all false.
C1_NoRowWithoutFlag == AllCompleted => \A r \in user_media : ~NoFlags(r)

\* a remove has deleted the row an add created, as its last flag went
C1_Witness ==
    /\ AllCompleted /\ ops = 2 /\ nextId = 2 /\ user_media = {}
    /\ pc["h1"] = "done" /\ req["h1"].op = "remove" /\ resp["h1"].status = 204

\* C2: in every user_media row, for each of the three lists, the flag is
\* true exactly when the paired timestamp is not NULL.
C2_FlagIffTimestamp ==
    \A r \in user_media : \A k \in Kinds : (Flag(r, k) = TRUE) <=> (AddedAt(r, k) # NULL)

\* a remove has cleared one list of a row that is still on another list
C2_Witness ==
    \E p \in Procs : \E r \in user_media : \E k \in Kinds :
        /\ pc[p] = "done" /\ req[p].op = "remove" /\ resp[p].status = 204
        /\ r.user_id = req[p].u /\ r.media_id = req[p].m
        /\ Flag(r, req[p].k) = FALSE /\ AddedAt(r, req[p].k) = NULL
        /\ Flag(r, k) = TRUE /\ AddedAt(r, k) # NULL

\* C3: at most one user_media row exists per (user_id, media_id).
C3_OneRowPerUserMedia ==
    \A r1, r2 \in user_media :
        r1.user_id = r2.user_id /\ r1.media_id = r2.media_id => r1 = r2

\* three adds have put one item on the three lists: one row
C3_Witness ==
    /\ ops = 3 /\ Cardinality(user_media) = 1
    /\ \E r \in user_media : r.is_watchlist /\ r.is_favorite /\ r.is_watched
\* the flags and timestamps of the three lists of row r
Lists(r) == [k \in Kinds |-> <<Flag(r, k), AddedAt(r, k)>>]

\* C4: remove(u, m, k) on an existing row clears flag k and its timestamp
\* and deletes the row exactly when the three flags are then all false; a
\* row with another flag still true stays, that flag and timestamp intact.
C4_RemoveClearsThenDeletesOrphan ==
    LET q == req["h1"] IN
    (pc["h1"] = "done" /\ q.op = "remove" /\ unique_user_media(pre, q.u, q.m) # {}) =>
        LET r0 == CHOOSE r \in unique_user_media(pre, q.u, q.m) : TRUE
            cleared == SetList(r0, q.k, FALSE, NULL)
            after == unique_user_media(user_media, q.u, q.m)
        IN  /\ resp["h1"].status = 204
            /\ (after = {}) <=> NoFlags(cleared)
            /\ \A r \in after : r.id = r0.id /\ Lists(r) = Lists(cleared)
                                  /\ r.media_type = r0.media_type

\* add watchlist, add favorites, remove watchlist: the row stays, on favorites
C4_Witness ==
    /\ pc["h1"] = "done" /\ req["h1"].op = "remove" /\ req["h1"].k = "watchlist" /\ ops = 3
    /\ \E r0 \in pre : r0.is_watchlist /\ r0.is_favorite /\ ~r0.is_watched
          /\ r0.user_id = req["h1"].u /\ r0.media_id = req["h1"].m
          /\ \E r \in user_media : r.id = r0.id /\ ~r.is_watchlist /\ r.is_favorite
                /\ r.favorite_added_at = r0.favorite_added_at

\* C5: add(u, m, t, k) inserts, when (u, m) has no row, one row with flag k
\* true, timestamp k = now, the other flags false with NULL timestamps and
\* media_type t; when the row exists it sets flag k and timestamp k and
\* leaves the other two flags and timestamps as they were.
C5_AddSetsOnlyItsList ==
    LET q == req["h1"] IN
    (pc["h1"] = "done" /\ q.op = "add") =>
        LET before == unique_user_media(pre, q.u, q.m)
            after == unique_user_media(user_media, q.u, q.m)
        IN  /\ resp["h1"].status = 201
            /\ Cardinality(after) = 1
            /\ \A r \in after :
                  /\ Flag(r, q.k) = TRUE /\ AddedAt(r, q.k) = now
                  /\ before = {} =>
                        /\ r.media_type = q.t
                        /\ \A k \in Kinds \ {q.k} : Flag(r, k) = FALSE /\ AddedAt(r, k) = NULL
                  /\ \A r0 \in before :
                        /\ r.id = r0.id
                        /\ \A k \in Kinds \ {q.k} : Lists(r)[k] = Lists(r0)[k]

\* an add to a row that is on another list since an earlier time
C5_Witness ==
    /\ pc["h1"] = "done" /\ req["h1"].op = "add"
    /\ \E r0 \in unique_user_media(pre, req["h1"].u, req["h1"].m) :
         \E k \in Kinds \ {req["h1"].k} :
            /\ Flag(r0, k) = TRUE /\ AddedAt(r0, k) < now /\ Flag(r0, req["h1"].k) = FALSE
            /\ \E r \in user_media : r.id = r0.id /\ Flag(r, k) = TRUE /\ Flag(r, req["h1"].k) = TRUE
\* C6: when a statement of a remove or removeAll fails after BEGIN and
\* before COMMIT, the call leaves the committed rows as they were: no step of
\* the call up to COMMIT, and no step of its catch block, changes user_media.
C6_FailedRemoveChangesNothing ==
    [][\A p \in Procs :
          (pc[p] \in {"connect", "BEGIN", "UPDATE", "DELETE", "ROLLBACK"} /\ pc'[p] # pc[p])
              => user_media' = user_media]_vars

\* the DELETE of a remove failed after its UPDATE had cleared the last flag
\* of the row: the row is there, flag set
C6_Witness ==
    /\ pc["h1"] = "done" /\ caught["h1"] = "DELETE" /\ resp["h1"].status = 500
    /\ \E r \in user_media :
          /\ r.user_id = req["h1"].u /\ Flag(r, req["h1"].k) = TRUE
          /\ \A k \in Kinds \ {req["h1"].k} : Flag(r, k) = FALSE

\* C7: under any interleaving no reader observes the intermediate state of
\* a remove or removeAll: the committed rows never hold a row with the three
\* flags false, and a row an open transaction has cleared or deleted is
\* still committed as it was before the transaction touched it.
C7_IntermediateStateInvisible ==
    /\ \A r \in user_media : ~NoFlags(r)
    /\ \A p \in Procs : tx[p].open =>
          /\ \A w \in tx[p].upd : \E v \in user_media :
                w = update_updated_at_column(SetList(v, req[p].k, FALSE, NULL), tx[p].start)
          /\ \A id \in tx[p].del : \E v \in user_media :
                v.id = id /\ NoFlags(SetList(v, req[p].k, FALSE, NULL))

\* a reader is about to SELECT the list while a transaction that has cleared
\* the flag and deleted the row waits for its COMMIT
C7_Witness ==
    \E p, q \in Procs :
        /\ pc[p] = "COMMIT" /\ tx[p].del # {}
        /\ pc[q] = "list" /\ req[q].k = req[p].k
        /\ get_SELECT(user_media, req[q].u, req[q].k) # {}

\* C8: two concurrent adds for the same (userId, mediaId) end in one row;
\* for different lists both flags are true, each with its own add's
\* timestamp, and for the same list the flag is true with one of the two
\* timestamps.
C8_ConcurrentAddsOneRow ==
    (ops = 2 /\ \A p \in Procs : pc[p] = "done" /\ req[p].op = "add" /\ resp[p].status = 201) =>
        /\ Cardinality(user_media) = 1
        /\ \A r \in user_media : \A p \in Procs :
              /\ Flag(r, req[p].k) = TRUE
              /\ resp[p].body[1].id = r.id
              /\ AddedAt(r, req[p].k) \in {resp[q].body[1].added_at : q \in {x \in Procs : req[x].k = req[p].k}}

\* both adds have returned, for different lists; the second came at a later time
C8_Witness ==
    /\ ops = 2 /\ \A p \in Procs : pc[p] = "done" /\ req[p].op = "add" /\ resp[p].status = 201
    /\ req["h1"].k # req["h2"].k
    /\ resp["h1"].body[1].added_at > resp["h2"].body[1].added_at
    /\ \E r \in user_media : Flag(r, req["h1"].k) /\ Flag(r, req["h2"].k)

\* C9: a client withTransaction acquired is released exactly once on every
\* exit path; a call that has returned or thrown holds no client.
C9_ClientReleasedOnce ==
    \A p \in Procs :
        /\ held[p] <=> pc[p] \in {"BEGIN", "UPDATE", "DELETE", "COMMIT", "ROLLBACK"}
        /\ releases[p] = IF pc[p] = "done" /\ req[p].op \in {"remove", "removeAll"}
                              /\ caught[p] # "connect"
                          THEN 1 ELSE 0

\* the call has thrown after its ROLLBACK rejected
C9_Witness ==
    /\ pc["h1"] = "done" /\ thrown["h1"] = "ROLLBACK" /\ resp["h1"].status = 500
    /\ releases["h1"] = 1 /\ ~held["h1"]
\* the rows of T without their updated_at
Mask(T) == {[r EXCEPT !.updated_at = NULL] : r \in T}

\* the returned remove repeats the call before it, or found no row for its
\* pair, or found the row with its flag false
C10_NothingToRemove ==
    LET q == req["h1"] IN
    /\ pc["h1"] = "done" /\ q.op = "remove"
    /\ \/ last = q
       \/ \A r \in unique_user_media(pre, q.u, q.m) : Flag(r, q.k) = FALSE

\* C10 as stated: remove(u, m, k) twice in a row leaves the state of one
\* call, and a remove for a pair without a row or for a list the item was
\* never in succeeds and changes nothing.
C10_RemoveChangesNothing ==
    C10_NothingToRemove => resp["h1"].status = 204 /\ user_media = pre

\* C10 as amended: such a remove succeeds and creates, deletes and moves no
\* row between lists; the one thing it changes is updated_at of the row of
\* (u, m), when there is one.
C10_RemoveChangesOnlyUpdatedAt ==
    LET q == req["h1"] IN
    C10_NothingToRemove =>
        /\ resp["h1"].status = 204
        /\ Mask(user_media) = Mask(pre)
        /\ user_media \ unique_user_media(user_media, q.u, q.m)
              = pre \ unique_user_media(pre, q.u, q.m)

\* a remove from a list the item was never in found the row on another list
\* and left it there, updated_at moved
C10_Witness ==
    LET q == req["h1"] IN
    /\ pc["h1"] = "done" /\ q.op = "remove" /\ resp["h1"].status = 204
    /\ \E r0 \in unique_user_media(pre, q.u, q.m) :
          /\ Flag(r0, q.k) = FALSE
          /\ \E r \in user_media : r.id = r0.id /\ r.updated_at > r0.updated_at
                /\ Lists(r) = Lists(r0)
\* C11: removeAll(u, k) clears flag k and its timestamp on every row of u
\* where it was true, deletes every row of u whose three flags are then all
\* false, and keeps every other row of u, its remaining flags and
\* timestamps unchanged; it creates no row.
C11_RemoveAllClearsList ==
    LET q == req["h1"] IN
    (pc["h1"] = "done" /\ q.op = "removeAll") =>
        /\ resp["h1"].status = 204
        /\ Ids(user_media) \subseteq Ids(pre)
        /\ \A r0 \in pre : r0.user_id = q.u =>
              LET cleared == SetList(r0, q.k, FALSE, NULL)
                  after == {r \in user_media : r.id = r0.id}
              IN  /\ (after = {}) <=> NoFlags(cleared)
                  /\ \A r \in after :
                        /\ Lists(r) = Lists(cleared)
                        /\ r.user_id = r0.user_id /\ r.media_id = r0.media_id
                        /\ r.media_type = r0.media_type

\* the user has two rows, one on list k alone and one on another list: the
\* first is deleted, the second stays as it was
C11_Witness ==
    LET q == req["h1"] IN
    /\ pc["h1"] = "done" /\ q.op = "removeAll" /\ resp["h1"].status = 204
    /\ \E r1, r2 \in pre :
          /\ r1.id # r2.id /\ r1.user_id = q.u /\ r2.user_id = q.u
          /\ Flag(r1, q.k) /\ ~NoFlags(SetList(r2, q.k, FALSE, NULL))
          /\ r1.id \notin Ids(user_media)
          /\ \E r \in user_media : r.id = r2.id /\ ~Flag(r, q.k) /\ ~NoFlags(r)

\* C12: removeAll(u, k) directly after the same removeAll, or for a user
\* with no row on list k, succeeds and changes no row (updated_at included).
C12_RemoveAllIdempotent ==
    LET q == req["h1"] IN
    (/\ pc["h1"] = "done" /\ q.op = "removeAll"
     /\ \/ last = q
        \/ \A r \in pre : r.user_id = q.u => Flag(r, q.k) = FALSE) =>
        resp["h1"].status = 204 /\ user_media = pre

\* the user has a row on another list, written before the transaction began
C12_Witness ==
    LET q == req["h1"] IN
    /\ pc["h1"] = "done" /\ q.op = "removeAll" /\ resp["h1"].status = 204
    /\ \E r \in pre : r.user_id = q.u /\ Flag(r, q.k) = FALSE /\ r.updated_at < now
    /\ user_media = pre

\* the returned add repeats the call before it
C13_AddedTwice == pc["h1"] = "done" /\ req["h1"].op = "add" /\ last = req["h1"]

\* C13 as stated: after add(u, m, t, k) twice in a row the row is the row
\* of the first call except for timestamp k, which is not smaller; no
\* second row appears.
C13_ReAddRefreshesTimestampOnly ==
    LET q == req["h1"] IN
    C13_AddedTwice =>
        /\ resp["h1"].status = 201
        /\ \E r0 \in unique_user_media(pre, q.u, q.m) :
              \E r \in user_media :
                 /\ user_media = (pre \ {r0}) \cup {r}
                 /\ r = SetList(r0, q.k, TRUE, AddedAt(r, q.k))
                 /\ AddedAt(r, q.k) >= AddedAt(r0, q.k)

\* C13 as amended: the row is the row of the first call except for
\* timestamp k and updated_at, both refreshed to the time of the second
\* call, which is not before the first; no second row appears.
C13_ReAddRefreshesTimestampAndUpdatedAt ==
    LET q == req["h1"] IN
    C13_AddedTwice =>
        /\ resp["h1"].status = 201
        /\ \E r0 \in unique_user_media(pre, q.u, q.m) :
              \E r \in user_media :
                 /\ user_media = (pre \ {r0}) \cup {r}
                 /\ r = update_updated_at_column(SetList(r0, q.k, TRUE, now), now)
                 /\ AddedAt(r, q.k) >= AddedAt(r0, q.k)
                 /\ r.updated_at >= r0.updated_at

\* the second add came at a later time and the row is on another list too
C13_Witness ==
    LET q == req["h1"] IN
    /\ C13_AddedTwice /\ resp["h1"].status = 201
    /\ \E r0 \in pre : \E r \in user_media :
          /\ r.id = r0.id /\ r0.user_id = q.u /\ r0.media_id = q.m
          /\ AddedAt(r, q.k) > AddedAt(r0, q.k)
          /\ \E k \in Kinds \ {q.k} : Flag(r, k)

\* C16: add(u, m, t2, k) on a pair whose row has media_type t1 leaves t1
\* stored, and the item add returns carries t1.
C16_MediaTypeFirstWriteWins ==
    LET q == req["h1"] IN
    (pc["h1"] = "done" /\ q.op = "add") =>
        \A r0 \in unique_user_media(pre, q.u, q.m) :
            /\ resp["h1"].status = 201
            /\ resp["h1"].body[1].media_type = r0.media_type
            /\ \A r \in unique_user_media(user_media, q.u, q.m) :
                  r.id = r0.id /\ r.media_type = r0.media_type

\* the row was created as a movie and the add passed tvshow
C16_Witness ==
    LET q == req["h1"] IN
    /\ pc["h1"] = "done" /\ q.op = "add" /\ q.t = "tvshow" /\ resp["h1"].status = 201
    /\ \E r0 \in unique_user_media(pre, q.u, q.m) : r0.media_type = "movie"
    /\ \E r \in unique_user_media(user_media, q.u, q.m) : r.media_type = "movie"
\* the returned list follows directly an add of item `last` to the same
\* list of the same user
C14_ListedAfterAdd ==
    /\ pc["h1"] = "done" /\ req["h1"].op = "list"
    /\ last.op = "add" /\ last.u = req["h1"].u /\ last.k = req["h1"].k

\* C14 as stated: for every prior state, list(u, k) directly after
\* add(u, m, t, k) has an entry with media_id m, media_type t and added_at
\* the timestamp that add set.
C14_ListHasEntryWithPassedType ==
    C14_ListedAfterAdd =>
        /\ resp["h1"].status = 200
        /\ \E i \in 1..Len(resp["h1"].body) :
              /\ resp["h1"].body[i].media_id = last.m
              /\ resp["h1"].body[i].media_type = last.t
              /\ resp["h1"].body[i].added_at = lastResp.body[1].added_at

\* C14 as amended: the entry has media_id m, added_at the timestamp that add
\* set, and the media_type stored for (u, m): t when the add created the
\* row, else the media_type the row already had.
C14_ListHasEntryWithStoredType ==
    C14_ListedAfterAdd =>
        /\ resp["h1"].status = 200
        /\ \E i \in 1..Len(resp["h1"].body) :
              /\ resp["h1"].body[i].media_id = last.m
              /\ resp["h1"].body[i].added_at = lastResp.body[1].added_at
              /\ resp["h1"].body[i].id = lastResp.body[1].id
              /\ \A r0 \in unique_user_media(pre, last.u, last.m) :
                    resp["h1"].body[i].media_type = r0.media_type
              /\ unique_user_media(pre, last.u, last.m) = {} =>
                    resp["h1"].body[i].media_type = last.t

\* the add passed tvshow for a row stored as movie, at a later time; the
\* list shows the item as movie with the time of that add
C14_Witness ==
    /\ C14_ListedAfterAdd /\ resp["h1"].status = 200 /\ last.t = "tvshow"
    /\ \E r0 \in unique_user_media(pre, last.u, last.m) :
          /\ r0.media_type = "movie"
          /\ \E i \in 1..Len(resp["h1"].body) :
                /\ resp["h1"].body[i].media_id = last.m
                /\ resp["h1"].body[i].media_type = "movie"
                /\ resp["h1"].body[i].added_at > r0.updated_at

\* the items list(u, k) is to return from table T
C15_Expected(T, u, k) ==
    {[id |-> r.id, source_text |-> k, user_id |-> u, media_type |-> r.media_type,
      media_id |-> r.media_id, added_at |-> AddedAt(r, k)] :
        r \in {x \in T : x.user_id = u /\ Flag(x, k) = TRUE}}

\* C15: list(u, k) returns exactly the rows of u whose flag k is true, each
\* once, as items of kind k with the list's own timestamp, latest first; an
\* item re-added at a later time than the others comes first; the SELECT
\* changes no row.
C15_ListReturnsExactlyTheList ==
    /\ [](LET q == req["h1"]
              body == resp["h1"].body
          IN  (pc["h1"] = "done" /\ q.op = "list") =>
                /\ resp["h1"].status = 200
                /\ {body[i] : i \in 1..Len(body)} = C15_Expected(user_media, q.u, q.k)
                /\ Len(body) = Cardinality(C15_Expected(user_media, q.u, q.k))
                /\ \A i, j \in 1..Len(body) : i < j => body[i].added_at >= body[j].added_at
                /\ (/\ C14_ListedAfterAdd
                    /\ \E r0 \in unique_user_media(pre, last.u, last.m) : Flag(r0, last.k)
                    /\ \A i \in 1..Len(body) :
                          body[i].media_id # last.m => body[i].added_at < lastResp.body[1].added_at)
                   => body[1].media_id = last.m)
    /\ [][pc["h1"] = "list" => user_media' = user_media]_vars

\* the list holds two items, the re-added one first; the user has a row on
\* another list and another user has a row on this list
C15_Witness ==
    LET q == req["h1"]
        body == resp["h1"].body
    IN  /\ C14_ListedAfterAdd /\ resp["h1"].status = 200
        /\ \E r0 \in unique_user_media(pre, last.u, last.m) : Flag(r0, last.k)
        /\ Len(body) = 2 /\ body[1].media_id = last.m
        /\ body[1].added_at > body[2].added_at

\* the list leaves out a row of the user on another list and a row of
\* another user on this list
C15_WitnessOthers ==
    LET q == req["h1"] IN
    /\ pc["h1"] = "done" /\ q.op = "list" /\ Len(resp["h1"].body) = 1
    /\ \E r \in user_media : r.user_id = q.u /\ ~Flag(r, q.k)
    /\ \E r \in user_media : r.user_id # q.u /\ Flag(r, q.k)
\* the user_avatars rows of user u in table T
C17_RowsOf(T, u) == {r \in T : r.user_id = u}

\* C17: under concurrent and sequential PATCH calls user_avatars has at
\* most one row per user_id; the upsert of an assignment for a user who has
\* a row puts the new avatar_id into that row and adds none, and touches no
\* other user's row.
C17_OneAssignmentPerUser ==
    /\ [](\A u \in Users : Cardinality(C17_RowsOf(user_avatars, u)) <= 1)
    /\ [][\A p \in Procs : (pc[p] = "INSERT" /\ pc'[p] = "SELECT") =>
             /\ Cardinality(C17_RowsOf(user_avatars', req[p].u)) = 1
             /\ \A r \in C17_RowsOf(user_avatars', req[p].u) :
                   /\ r.avatar_id = req[p].avatar_id
                   /\ \A r0 \in C17_RowsOf(user_avatars, req[p].u) : r.created_at = r0.created_at
             /\ \A u \in Users \ {req[p].u} :
                   C17_RowsOf(user_avatars', u) = C17_RowsOf(user_avatars, u)]_vars

\* two PATCH calls for one user, on two handlers, asked for different
\* avatars; the user's one row, created by the first upsert, has been
\* rewritten by the second
C17_Witness ==
    /\ \A p \in Procs : pc[p] = "done" /\ req[p].op = "updateUserAvatar" /\ resp[p].status = 200
    /\ ops = 2
    /\ req["h1"].u = req["h2"].u /\ req["h1"].avatar_id # req["h2"].avatar_id
    /\ \E r \in user_avatars : r.user_id = req["h1"].u /\ r.created_at < r.updated_at
    /\ Cardinality(user_avatars) = 1

\* avatar_id values of the catalog
C18_Catalog == {a.avatar_id : a \in avatars}

\* C18: PATCH with an avatar_id that is not in the catalog answers 404 and
\* leaves user_avatars as it was; the GET for that user that follows returns
\* what the table held before the PATCH: the avatar of the user's row, or
\* the default when the user has none.
C18_UnknownAvatarChangesNothing ==
    LET q == req["h1"] IN
    /\ (pc["h1"] = "done" /\ q.op = "updateUserAvatar" /\ q.avatar_id \notin C18_Catalog) =>
          resp["h1"].status = 404 /\ user_avatars = pre
    /\ (/\ pc["h1"] = "done" /\ q.op = "getUserAvatar"
        /\ last.op = "updateUserAvatar" /\ last.u = q.u /\ last.avatar_id \notin C18_Catalog) =>
          /\ lastResp.status = 404
          /\ user_avatars = pre
          /\ resp["h1"].status = 200
          /\ \A r0 \in C17_RowsOf(pre, q.u) : resp["h1"].body[1].avatar_id = r0.avatar_id
          /\ C17_RowsOf(pre, q.u) = {} =>
                \E a \in avatars : a.is_default /\ resp["h1"].body[1].avatar_id = a.avatar_id

\* the user had avatar 5, asked for 999, and GET still returns avatar 5
C18_Witness ==
    LET q == req["h1"] IN
    /\ pc["h1"] = "done" /\ q.op = "getUserAvatar"
    /\ last.op = "updateUserAvatar" /\ last.u = q.u /\ last.avatar_id = 999
    /\ lastResp.status = 404
    /\ \E r0 \in C17_RowsOf(pre, q.u) : r0.avatar_id = 5
    /\ resp["h1"].status = 200 /\ resp["h1"].body[1].avatar_id = 5

\* the catalog entry of avatar_id id, as the handlers return it
C19_Entry(id) ==
    [avatar_id |-> id, avatar_name |-> avatar_names[id], avatar_url |-> avatar_urls[id]]

C20_DefaultIsNotMaterialized ==
    /\ [](LET q == req["h1"] IN
          (pc["h1"] = "done" /\ q.op = "getUserAvatar" /\ C17_RowsOf(user_avatars, q.u) = {}) =>
              /\ resp["h1"].status = 200
              /\ \E a \in avatars :
                    a.is_default /\ resp["h1"].body = <<C19_Entry(a.avatar_id)>>)
    /\ [][pc["h1"] = "getUserAvatar" => user_avatars' = user_avatars]_vars

\* GET for a user without a row, while another user has one: the default
\* came back and the table has the other user's row alone
C20_Witness ==
    LET q == req["h1"] IN
    /\ pc["h1"] = "done" /\ q.op = "getUserAvatar" /\ resp["h1"].status = 200
    /\ C17_RowsOf(user_avatars, q.u) = {}
    /\ Cardinality(user_avatars) = 1
    /\ resp["h1"].body[1].avatar_id = 1
\* C21: getUserAvatar answers 404 only when the user has no user_avatars row
\* and no avatars row is flagged default; whenever the user has a row or a
\* default exists it answers 200 with one avatar of the catalog.
C21_NotFoundOnlyWithoutRowAndDefault ==
    (pc["h1"] = "done" /\ req["h1"].op = "getUserAvatar") =>
        LET hasRow == \E ua \in user_avatars : ua.user_id = req["h1"].u
            hasDefault == \E a \in avatars : a.is_default
        IN  /\ (resp["h1"].status = 404) <=> (~hasRow /\ ~hasDefault)
            /\ (hasRow \/ hasDefault) =>
                   /\ resp["h1"].status = 200
                   /\ Len(resp["h1"].body) = 1
                   /\ resp["h1"].body[1] \in {Avatar(a) : a \in avatars}

\* no default is flagged: the user with a row has got its avatar, the user
\* without one gets 404
C21_Witness ==
    /\ ~seeded_default
    /\ last.op = "getUserAvatar" /\ last.u = 456 /\ lastResp.status = 200
    /\ \E ua \in user_avatars : ua.user_id = 456
    /\ pc["h1"] = "done" /\ req["h1"].op = "getUserAvatar" /\ req["h1"].u = 789
    /\ resp["h1"].status = 404

\* C22: the error the caller of withTransaction receives is the error the
\* failing BEGIN, callback statement or COMMIT raised, on every failure path,
\* the one where ROLLBACK itself rejects included.
C22_ErrorPropagatesUnchanged ==
    \A p \in Procs :
        (pc[p] = "done" /\ caught[p] \in {"BEGIN", "UPDATE", "DELETE", "COMMIT"}) =>
            thrown[p] = caught[p]

\* C23: a connectToDatabase call throws when its connection test fails and
\* also when a pool already exists.
C23_ConnectThrowsWhenPoolExists ==
    \A p \in Procs :
        (pc[p] = "done" /\ req[p].op = "connectToDatabase") =>
            ((req[p].existed \/ log[p] = <<<<"pool.connect", FALSE>>>>) => thrown[p] # "none")

\* C29: getPool returns the pool only when a connectToDatabase call has
\* completed successfully and no disconnectFromDatabase has completed since;
\* in every other state it throws the not-initialized error.
C29_GetPoolOnlyWhenConnected ==
    \A p \in Procs :
        (pc[p] = "done" /\ req[p].op = "getPool") =>
            /\ thrown[p] = "none" => req[p].connected
            /\ ~req[p].connected => thrown[p] = "not initialized"

\* the statements withTransaction sends in its try block, in order
C24_Try == <<"BEGIN", "UPDATE", "DELETE", "COMMIT">>

\* L is a run of withTransaction on its client, possibly unfinished
C24_Order(L) ==
    /\ L # <<>> => L[1][1] = "BEGIN"
    /\ \A i \in 1..Len(L) :
          /\ L[i][1] \in {"BEGIN", "UPDATE", "DELETE", "COMMIT", "ROLLBACK", "release"}
          /\ \A j \in 1..4 :
                (L[i][1] = C24_Try[j] /\ i < Len(L)) =>
                    L[i + 1][1] = (IF ~L[i][2] THEN "ROLLBACK"
                                   ELSE IF j < 4 THEN C24_Try[j + 1] ELSE "release")
          /\ L[i][1] = "ROLLBACK" =>
                /\ i > 1 /\ ~L[i - 1][2] /\ L[i - 1][1] \in {"BEGIN", "UPDATE", "DELETE", "COMMIT"}
                /\ i < Len(L) => L[i + 1][1] = "release"
          /\ L[i][1] = "release" => i = Len(L)

\* C24: on the client of a withTransaction call BEGIN is sent first, then
\* the callback's statements, then COMMIT only if all of them resolved, or
\* ROLLBACK once BEGIN, a callback statement or COMMIT has rejected; release
\* comes last, nothing follows COMMIT or ROLLBACK but release, and a call
\* that has ended and had a client has released it.
C24_StatementOrder ==
    \A p \in Procs :
        req[p].op \in {"remove", "removeAll"} =>
            /\ C24_Order(log[p])
            /\ (pc[p] = "done" /\ thrown[p] # "connect") =>
                   (log[p] # <<>> /\ log[p][Len(log[p])][1] = "release")
            /\ (pc[p] = "done" /\ thrown[p] = "connect") => log[p] = <<>>

\* COMMIT has rejected after the callback resolved: ROLLBACK, then release
C24_Witness ==
    /\ pc["h1"] = "done"
    /\ log["h1"] = <<<<"BEGIN", TRUE>>, <<"UPDATE", TRUE>>, <<"DELETE", TRUE>>,
                     <<"COMMIT", FALSE>>, <<"ROLLBACK", TRUE>>, <<"release", TRUE>>>>

\* C26: a remove or removeAll request is answered 204 only after its COMMIT
\* has resolved; when a statement has rejected no success response is sent
\* and the error reaches the error handler, which answers 500; every request
\* gets exactly one response: none while it runs, one when it has ended, and
\* a response once sent is not replaced.
C26_SuccessOnlyAfterCommit ==
    /\ [](\A p \in Procs :
            req[p].op \in {"remove", "removeAll"} =>
                /\ resp[p].status = 204 =>
                       /\ \E i \in 1..Len(log[p]) : log[p][i] = <<"COMMIT", TRUE>>
                       /\ thrown[p] = "none"
                /\ (pc[p] = "done" /\ ((\E i \in 1..Len(log[p]) : ~log[p][i][2]) \/ thrown[p] # "none")) =>
                       (thrown[p] # "none" /\ resp[p].status = 500)
                /\ (pc[p] = "done") <=> (resp[p] # NoResp))
    /\ [][\A p \in Procs :
            (req[p].op \in {"remove", "removeAll"} /\ resp[p] # NoResp) =>
                (resp'[p] = resp[p] \/ (resp'[p] = NoResp /\ pc'[p] = "idle"))]_vars

\* one remove was answered 204 after its COMMIT
C26_Witness ==
    /\ pc["h1"] = "done" /\ req["h1"].op = "remove" /\ resp["h1"].status = 204
    /\ log["h1"] = <<<<"BEGIN", TRUE>>, <<"UPDATE", TRUE>>, <<"DELETE", TRUE>>,
                     <<"COMMIT", TRUE>>, <<"release", TRUE>>>>

\* a removeAll ended in the error handler after its DELETE rejected
C26_WitnessFailure ==
    /\ pc["h1"] = "done" /\ req["h1"].op = "removeAll" /\ resp["h1"].status = 500
    /\ caught["h1"] = "DELETE" /\ thrown["h1"] = "DELETE"

\* the header is present and well-formed: a Bearer token of three parts
\* whose payload names a user, or an ApiKey of full length
C25_WellFormed(h) ==
    \/ h.scheme = "Bearer" /\ h.length >= 10 /\ h.parts = 3 /\ h.user_id # 0
    \/ h.scheme = "ApiKey" /\ h.length >= 32

\* C25: a handler sends statements only when authenticate has attached a
\* user and requireOwnUser has found its user_id equal to the :userid of the
\* path; a request with a missing or malformed Authorization header ends
\* with 401, one with a mismatching user_id with 403, and either ends without
\* a statement sent and without a row changed.
C25_StatementsOnlyForOwnUser ==
    LET r == req["h1"] IN
    pc["h1"] # "idle" =>
        /\ (log["h1"] # <<>> \/ held["h1"] \/ pc["h1"] \notin {"authenticate", "requireOwnUser", "done"}) =>
               (r.user.attached /\ r.user.user_id = r.userid)
        /\ (pc["h1"] = "done" /\ ~C25_WellFormed(r.authorization)) =>
               /\ resp["h1"].status = 401
               /\ log["h1"] = <<>>
               /\ <<user_media, user_avatars>> = pre
        /\ (pc["h1"] = "done" /\ r.user.attached /\ r.user.user_id # r.userid) =>
               /\ resp["h1"].status = 403
               /\ log["h1"] = <<>>
               /\ <<user_media, user_avatars>> = pre

\* user 456 has a favorite; a removeAll on its path with the token of user
\* 789 has ended with 403
C25_Witness ==
    /\ pc["h1"] = "done" /\ req["h1"].op = "removeAll" /\ req["h1"].u = 456
    /\ req["h1"].user = [attached |-> TRUE, user_id |-> String(789)]
    /\ resp["h1"].status = 403
    /\ \E x \in user_media : x.user_id = 456 /\ x.is_favorite

\* a request without a header has ended with 401
C25_WitnessNoHeader ==
    /\ pc["h1"] = "done" /\ req["h1"].authorization.scheme = "none"
    /\ resp["h1"].status = 401 /\ user_media # {}

\* C27: when an add to list k1 and a remove from another list k2 of the same
\* (user, media) have run concurrently and both have completed, the row
\* exists with flag k1 true: the remove's cleanup has not taken the add with
\* it, and the row is not left with all flags false.  (h1 has made this one
\* remove; an add that returned earlier may have put the item on a list.)
C27_AddSurvivesConcurrentRemove ==
    (/\ pc["h1"] = "done" /\ req["h1"].op = "remove" /\ resp["h1"].status = 204
     /\ pc["h2"] = "done" /\ req["h2"].op = "add" /\ resp["h2"].status = 201
     /\ req["h1"].k # req["h2"].k
     /\ last.op # "remove") =>
        /\ \E r \in unique_user_media(user_media, req["h2"].u, req["h2"].m) : Flag(r, req["h2"].k)
        /\ \A r \in user_media : ~NoFlags(r)

\* the item was on list k2 alone; the remove from k2 has deleted that row
\* and the add to k1, which had to wait for the row, has inserted a new one
C27_Witness ==
    /\ pc["h1"] = "done" /\ req["h1"].op = "remove" /\ resp["h1"].status = 204
    /\ pc["h2"] = "done" /\ req["h2"].op = "add" /\ resp["h2"].status = 201
    /\ req["h1"].k # req["h2"].k
    /\ last.op = "add" /\ last.k = req["h1"].k
    /\ nextId = 3
    /\ \E r \in user_media : r.id = 2 /\ \A k \in Kinds : Flag(r, k) <=> k = req["h2"].k

\* the rows of T a call for (u, m) must leave alone; m = "" for removeAll,
\* which must leave alone the rows of the other users
C28_Others(T, r) ==
    IF r.op = "removeAll"
    THEN {x \in T : x.user_id # r.u}
    ELSE {x \in T : ~(x.user_id = r.u /\ x.media_id = r.m)}

\* C28: add(u, m, ., k) and remove(u, m, k) change no row but the one keyed
\* (u, m), and removeAll(u, k) changes no row of another user: those rows
\* are the same, column by column, after the call as before it.
C28_OtherRowsUntouched ==
    (pc["h1"] = "done" /\ req["h1"].op \in {"add", "remove", "removeAll"}) =>
        C28_Others(user_media, req["h1"]) = C28_Others(pre, req["h1"])

\* a removeAll for user 456 has cleared that user's list while user 789 has a
\* row on the same list
C28_Witness ==
    /\ pc["h1"] = "done" /\ req["h1"].op = "removeAll" /\ req["h1"].u = 456
    /\ \E x \in pre : x.user_id = 456 /\ Flag(x, req["h1"].k)
    /\ \E x \in user_media : x.user_id = 789 /\ Flag(x, req["h1"].k)
    /\ user_media # pre

\* a remove for (456, tt1) has deleted its row while (456, tt2) and a row of
\* user 789 exist
C28_WitnessRemove ==
    /\ pc["h1"] = "done" /\ req["h1"].op = "remove" /\ req["h1"].u = 456 /\ req["h1"].m = "tt1"
    /\ \E x \in pre : x.user_id = 456 /\ x.media_id = "tt1"
    /\ unique_user_media(user_media, 456, "tt1") = {}
    /\ user_media # {}

\* every string of v, at any depth, is free of leading and trailing
\* whitespace and of null bytes
RECURSIVE C30_Clean(_)
C30_Clean(v) ==
    IF v.type = "string"
    THEN /\ v.str # <<>> => (v.str[1] \notin WhiteSpace /\ v.str[Len(v.str)] \notin WhiteSpace)
         /\ \A i \in 1..Len(v.str) : v.str[i] # "NUL"
    ELSE \A i \in 1..Len(v.items) : C30_Clean(v.items[i])

\* C30: after sanitizeBody every string of the request body, in nested
\* objects and arrays too, has no leading or trailing whitespace and no null
\* byte, whatever the input string.
C30_SanitizedStringsAreClean ==
    (pc["h1"] = "done" /\ req["h1"].op = "add") => C30_Clean(req["h1"].body)

====
